---- MODULE Spec2Model ----
(***************************************************************************)
(* Push-triggered redeployment agent (redeployment-service).               *)
(*                                                                         *)
(* The model follows the TypeScript sources:                               *)
(*   routes/webhook.ts      WebhookRoutes.handleGitHubWebhook              *)
(*   utils/webhook.ts       WebhookValidator (stored at the end of git.ts) *)
(*   services/deployment.ts DeploymentService                              *)
(*   utils/git.ts           GitManager (the later of the two definitions)  *)
(*   utils/docker.ts        DockerManager                                  *)
(*                                                                         *)
(* Texts produced by external tools (stderr, `docker compose ps` output)   *)
(* are sequences of one-character strings, so that String.includes is a    *)
(* real substring test.  Paths are directory names below the apps root.    *)
(***************************************************************************)
EXTENDS Integers, Sequences, FiniteSets, TLC

(***************************************************************************)
(* Bounds of the model                                                     *)
(***************************************************************************)
\* number of directory lines of `ls -la` besides "." and ".."
MaxDirs == 2

(***************************************************************************)
(* Program constants                                                       *)
(***************************************************************************)
\* length of the hex digest of HMAC-SHA256
HexLen == 64

(***************************************************************************)
(* Texts                                                                   *)
(***************************************************************************)
Includes(text, sub) ==
  \E i \in 0..(Len(text) - Len(sub)) : SubSeq(text, i + 1, i + Len(sub)) = sub

Empty == << >>

\* status column of `docker compose ps` (the engine's vocabulary)
T_Up         == <<"U","p">>
T_Exited     == <<"E","x","i","t","e","d">>
T_Dead       == <<"D","e","a","d">>
T_Restarting == <<"R","e","s","t","a","r","t","i","n","g">>

\* diagnostic stream samples of build / up and of git
T_warn    == <<"w","a","r","n">>
T_ERROR   == <<"E","R","R","O","R">>
T_error   == <<"e","r","r","o","r">>
T_failed  == <<"f","a","i","l","e","d">>
T_Error   == <<"E","r","r","o","r">>
T_fatal   == <<"f","a","t","a","l">>


(***************************************************************************)
(* Names, branches, refs                                                   *)
(***************************************************************************)
N_svc  == <<"s","v","c">>
N_api  == <<"a","p","i">>
\* the agent's own install directory, git.ts:154
N_self == <<"r","e","d","e","p","l","o","y","m","e","n","t","-",
            "s","e","r","v","i","c","e">>
N_dot    == <<".">>
N_dotdot == <<".",".">>

\* directories that can exist below the apps root
DiskNames == {N_svc, N_api, N_self}
\* repository.name values of inbound push payloads
PushNames == {N_svc, N_self}

\* a ref or a branch is a sequence of segments; the fixed prefix is one segment
RefsHeads == "refs/heads/"
RefsTags  == "refs/tags/"
B_main == <<"main">>
B_dev  == <<"dev">>
Branches == {B_main, B_dev}
\* JSON payload without a ref member: pushEvent.ref is undefined
NoRef == <<"<undefined>">>
\* the last one is the ref of a tag named "refs/heads/main"
Refs == {<<RefsHeads>> \o B_main, <<RefsHeads>> \o B_dev, <<RefsTags>> \o B_main,
         <<RefsTags, RefsHeads>> \o B_main}

\* String.prototype.replace(x, '') with a string pattern: the first
\* occurrence only
RemoveFirst(seq, x) ==
  IF \E k \in 1..Len(seq) : seq[k] = x
  THEN LET first == CHOOSE k \in 1..Len(seq) :
                      seq[k] = x /\ \A j \in 1..(k - 1) : seq[j] # x
       IN SubSeq(seq, 1, first - 1) \o SubSeq(seq, first + 1, Len(seq))
  ELSE seq

extractBranchFromRef(ref) == RemoveFirst(ref, RefsHeads)

(***************************************************************************)
(* Payloads and signatures                                                 *)
(***************************************************************************)
Secrets == {"k1", "k2"}
Layouts == {"compact", "spaced"}

\* the JSON value of a push payload (types.ts GitHubPushEvent); hasCommit is
\* FALSE when head_commit is null
Bodies == [name : PushNames, ref : Refs \cup {NoRef}, hasCommit : BOOLEAN]

\* the bytes on the wire: a JSON value in some layout of insignificant
\* whitespace
RawPayloads == [body : Bodies, layout : Layouts]

\* express.json(): req.body is the parsed value
JsonParse(raw) == raw.body
\* JSON.stringify(value): the one compact serialisation of the value
JsonStringify(body) == [body |-> body, layout |-> "compact"]

NoPayload == [body |-> [name |-> << >>, ref |-> << >>, hasCommit |-> FALSE],
              layout |-> "none"]
\* a character of a header value: a literal, or the i-th hex digit of the
\* HMAC of payload p under key k (distinct keys or payloads give distinct
\* digests)
\* c is the character code of the literal
Lit(c) == [k |-> "", p |-> NoPayload, i |-> c]
HexDigit(k, p, i) == [k |-> k, p |-> p, i |-> i]
EqSign == Lit(61)
Sha256Prefix == <<Lit(115), Lit(104), Lit(97), Lit(50), Lit(53), Lit(54)>>

generateSignature(secret, payload) ==
  [i \in 1..HexLen |-> HexDigit(secret, payload, i)]

RECURSIVE timingSafeEqualLoop(_, _, _, _)
timingSafeEqualLoop(a, b, i, result) ==
  IF i > Len(a) THEN result
  ELSE timingSafeEqualLoop(a, b, i + 1,
                           IF a[i] # b[i] THEN 1 ELSE result)

timingSafeEqual(a, b) ==
  IF Len(a) # Len(b) THEN FALSE
  ELSE timingSafeEqualLoop(a, b, 1, 0) = 0

RECURSIVE timingSafeEqualVisits(_, _, _, _)

\* the loop is left at the first position where the strings differ
timingSafeEqualVisitsUntilMismatch(a, b, i, visited) ==
  IF i > Len(a) THEN visited
  ELSE IF a[i] # b[i] THEN Append(visited, i)
  ELSE timingSafeEqualVisits(a, b, i + 1, Append(visited, i))

\* git.ts 318-320: the positions the loop reads, in order; the body has no
\* break, return or throw
timingSafeEqualVisits(a, b, i, visited) ==
  IF i > Len(a) THEN visited
  ELSE timingSafeEqualVisits(a, b, i + 1, Append(visited, i))

\* git.ts 313-324: the positions compared by one call
timingSafeEqualSteps(a, b) ==
  IF Len(a) # Len(b) THEN << >>
  ELSE timingSafeEqualVisits(a, b, 1, << >>)

\* the scheme prefix "sha256=" is removed from the header value
verifySignatureStripsPrefix(secret, payload, signature) ==
  IF signature = << >> THEN FALSE
  ELSE LET scheme == Sha256Prefix \o <<EqSign>>
           provided ==
             IF Len(signature) >= Len(scheme)
                /\ SubSeq(signature, 1, Len(scheme)) = scheme
             THEN SubSeq(signature, Len(scheme) + 1, Len(signature))
             ELSE signature
       IN timingSafeEqual(generateSignature(secret, payload), provided)

\* a missing header (undefined) and an empty one are both << >>
verifySignature(secret, payload, signature) ==
  IF signature = << >> THEN FALSE
  ELSE timingSafeEqual(generateSignature(secret, payload),
                       RemoveFirst(signature, EqSign))

\* header values a sender can produce from a digest
HeaderFormats == {"missing", "github", "bare"}
FormatHeader(fmt, hex) ==
  CASE fmt = "missing" -> << >>
    [] fmt = "github"  -> Sha256Prefix \o <<EqSign>> \o hex
    [] fmt = "bare"    -> hex
    [] fmt = "eq"      -> <<EqSign>> \o hex
    [] fmt = "short"   -> SubSeq(hex, 1, HexLen - 1)
    [] OTHER           -> hex

(***************************************************************************)
(* Repository catalog (GitManager)                                         *)
(***************************************************************************)
\* on-disk truth of one directory below the apps root
NotGit == [isGit |-> FALSE, branch |-> << >>, compose |-> FALSE]
Checkout(b, c) == [isGit |-> TRUE, branch |-> b, compose |-> c]

StartsWithDot(name) == Len(name) > 0 /\ name[1] = "."

\* RepositoryInfo | null, as a sequence of at most one record.  fault: one
\* of the commands of lines 202-208 rejected.
\* the descriptor test is not made: every checkout counts as deployable
getRepositoryInfoAssumesCompose(name, dsk, fault) ==
  IF ~dsk[name].isGit THEN << >>
  ELSE IF fault THEN << >>
  ELSE << [name |-> name, path |-> name,
           currentBranch |-> dsk[name].branch,
           hasDockerCompose |-> TRUE] >>

getRepositoryInfo(name, dsk, fault) ==
  IF ~dsk[name].isGit THEN << >>
  ELSE IF fault THEN << >>
  ELSE << [name |-> name, path |-> name,
           currentBranch |-> dsk[name].branch,
           hasDockerCompose |-> dsk[name].compose] >>

\* lines: the last whitespace-separated field of every `ls -la` line that
\* starts with "d", in listing order
RECURSIVE scanLines(_, _, _, _)
\* only hidden entries are passed over
scanLinesKeepsOwnDirectory(lines, dsk, faults, i) ==
  IF i > Len(lines) THEN << >>
  ELSE IF StartsWithDot(lines[i])
       THEN scanLines(lines, dsk, faults, i + 1)
       ELSE getRepositoryInfo(lines[i], dsk, i \in faults)
            \o scanLines(lines, dsk, faults, i + 1)

\* a rejected command ends the scan with what was collected before it
scanLinesAbortsOnFault(lines, dsk, faults, i) ==
  IF i > Len(lines) THEN << >>
  ELSE IF StartsWithDot(lines[i]) \/ lines[i] = N_self
       THEN scanLines(lines, dsk, faults, i + 1)
       ELSE IF i \in faults THEN << >>
       ELSE getRepositoryInfo(lines[i], dsk, FALSE)
            \o scanLines(lines, dsk, faults, i + 1)

scanLines(lines, dsk, faults, i) ==
  IF i > Len(lines) THEN << >>
  ELSE IF StartsWithDot(lines[i]) \/ lines[i] = N_self
       THEN scanLines(lines, dsk, faults, i + 1)
       ELSE getRepositoryInfo(lines[i], dsk, i \in faults)
            \o scanLines(lines, dsk, faults, i + 1)

\* the listing lines at which one of the commands of git.ts 202-208 can be
\* rejected: those handed to getRepositoryInfo that pass its git check (for
\* a directory that is not a checkout a rejected check gives the same null)
Readable(lines, dsk) ==
  {i \in 1..Len(lines) :
     ~StartsWithDot(lines[i]) /\ lines[i] # N_self /\ dsk[lines[i]].isGit}

\* the entries are read whether or not the listing command succeeded
getRepositoriesScansAnyway(lines, dsk, lsOk, faults) ==
  scanLines(lines, dsk, faults, 1)

getRepositories(lines, dsk, lsOk, faults) ==
  IF ~lsOk THEN << >> ELSE scanLines(lines, dsk, faults, 1)

(***************************************************************************)
(* Deployment orchestrator, pure parts                                     *)
(***************************************************************************)
\* the filter without its descriptor condition
MatchesAnyDeployability(repo, pushedRepoName, pushedBranch) ==
  /\ repo.name = pushedRepoName
  /\ repo.currentBranch = pushedBranch

Matches(repo, pushedRepoName, pushedBranch) ==
  /\ repo.name = pushedRepoName
  /\ repo.currentBranch = pushedBranch
  /\ repo.hasDockerCompose

\* Array.prototype.filter
RECURSIVE matchingRepos(_, _, _)
matchingRepos(repositories, pushedRepoName, pushedBranch) ==
  IF repositories = << >> THEN << >>
  ELSE (IF Matches(Head(repositories), pushedRepoName, pushedBranch)
        THEN <<Head(repositories)>> ELSE << >>)
       \o matchingRepos(Tail(repositories), pushedRepoName, pushedBranch)

Msg(prefix, text) == [prefix |-> prefix, text |-> text]
NoMsg == Msg(<< >>, << >>)

Result(repository, branch, success, message) ==
  [repository |-> repository, branch |-> branch, success |-> success,
   message |-> message]

T_unknown == <<"u","n","k","n","o","w","n">>
T_TypeError == <<"T","y","p","e","E","r","r","o","r">>

\* the outer handler rethrows
processPushCatchRethrows(results, error) ==
  [threw |-> TRUE, results |-> results]

\* deployment.ts 51-62: the handler of the outer try block records a failed
\* result, then the function returns the list (threw: the call rejects)
processPushCatch(results, error) ==
  [threw |-> FALSE,
   results |-> Append(results,
                      Result(T_unknown, <<"unknown">>, FALSE,
                             Msg(<<"Error processing push event: ">>, error)))]

\* deployment.ts 77-85
pullFailedResult(repo, branch, pullResult) ==
  Result(repo.name, branch, FALSE,
         Msg(<<"Failed to pull changes: ">> \o pullResult.message.prefix,
             pullResult.message.text))

\* the wrapper reports success whatever the workload controller returned
deployedResultAlwaysSucceeds(repo, branch, deployResult) ==
  Result(repo.name, branch, TRUE, deployResult.message)

\* deployment.ts 112-118
deployedResult(repo, branch, deployResult) ==
  Result(repo.name, branch, deployResult.success, deployResult.message)

\* deployment.ts 120-129
deployRepositoryCatch(repo, branch, error) ==
  Result(repo.name, branch, FALSE, Msg(<<"Deployment error: ">>, error))

(***************************************************************************)
(* Source sync and workload controller, pure parts                         *)
(***************************************************************************)
Outcome(success, message) == [success |-> success, message |-> message]
NoOutcome == Outcome(FALSE, NoMsg)

\* git.ts 234-245: the result of pullLatestChanges
pullSucceeded == Outcome(TRUE, Msg(<<"Successfully pulled changes: ">>, Empty))
pullFailed(errorMessage) ==
  Outcome(FALSE, Msg(<<"Failed to pull changes: ">>, errorMessage))

\* how a child process started by exec ended.  A rejection carries what the
\* child wrote to stderr, and the message "Command failed: ..." that ends
\* with that stderr text (a child killed at its timeout wrote nothing)
T_CommandFailed == <<"C","o","m","m","a","n","d"," ","f","a","i","l","e","d">>
T_UnknownError == <<"U","n","k","n","o","w","n"," ","e","r","r","o","r">>
CmdOk == [rejected |-> FALSE, stderr |-> Empty, message |-> Empty]
CmdRejected(stderr) ==
  [rejected |-> TRUE, stderr |-> stderr, message |-> T_CommandFailed \o stderr]

\* git.ts 239: error.stderr || error.message || 'Unknown error'
errorText(error) ==
  IF error.stderr # Empty THEN error.stderr
  ELSE IF error.message # Empty THEN error.message
  ELSE T_UnknownError

\* a rejected registration of the path is ignored
pullLatestChangesBestEffortConfig(config, pull) ==
  IF pull.rejected THEN pullFailed(errorText(pull))
  ELSE pullSucceeded

\* git.ts 227-247: `git config --global --add safe.directory`, then
\* `git pull origin <branch>`, both inside one try block
pullLatestChanges(config, pull) ==
  IF config.rejected THEN pullFailed(errorText(config))
  ELSE IF pull.rejected THEN pullFailed(errorText(pull))
  ELSE pullSucceeded

\* how a diagnostic child process ended: its stdout, or a rejection (a child
\* killed at its timeout wrote nothing to stderr)
ProbeOk(stdout) ==
  [rejected |-> FALSE, stdout |-> stdout, stderr |-> Empty, message |-> Empty]
ProbeRejected(stderr) ==
  [rejected |-> TRUE, stdout |-> Empty, stderr |-> stderr,
   message |-> T_CommandFailed \o stderr]

\* what a diagnostic operation hands to its caller: a string, or an exception
Returns(value) == [threw |-> FALSE, value |-> value]
Throws(error) == [threw |-> TRUE, value |-> Msg(<< >>, error)]

\* docker.ts 138-148: docker compose logs --tail=N, timeout 10 s
getContainerLogs(logs) ==
  IF logs.rejected
  THEN Returns(Msg(<<"Error getting logs: ">>, logs.message))
  ELSE Returns(Msg(<< >>, logs.stdout))

\* docker.ts 185-195: docker compose ps, timeout 10 s
getContainerStatus(ps) ==
  IF ps.rejected
  THEN Returns(Msg(<<"Error getting status: ">>, ps.message))
  ELSE Returns(Msg(<< >>, ps.stdout))

\* docker.ts 155-163: the number of commands of the debug dump
DebugCommands == 7

\* docker.ts 168-173: one section of the dump, "--- cmd ---" and its body
debugSection(k, outcome) ==
  [cmd |-> k,
   body |-> IF outcome.rejected
            THEN Msg(<<"Error: ">>, outcome.message)
            ELSE Msg(<< >>, outcome.stdout)]

RECURSIVE debugLoop(_, _, _)

\* the dump ends at the first probe that fails
debugLoopStopsAtFailure(outcomes, k, debugInfo) ==
  IF k > Len(outcomes) \/ outcomes[k].rejected THEN debugInfo
  ELSE debugLoop(outcomes, k + 1,
                 Append(debugInfo, debugSection(k, outcomes[k])))

\* docker.ts 167-174: the loop over the commands, each in its own try block
debugLoop(outcomes, k, debugInfo) ==
  IF k > Len(outcomes) THEN debugInfo
  ELSE debugLoop(outcomes, k + 1,
                 Append(debugInfo, debugSection(k, outcomes[k])))

\* docker.ts 153-180
getContainerDebugInfo(outcomes) == Returns(debugLoop(outcomes, 1, << >>))

\* docker.ts 265-270: the number of permission checks
PermissionChecks == 4

\* a diagnostic operation lets the rejection of a command escape
checkPermissionsPropagates(checks) ==
  IF \E k \in 1..Len(checks) : checks[k].rejected
  THEN Throws(checks[CHOOSE k \in 1..Len(checks) : checks[k].rejected].message)
  ELSE Returns([k \in 1..Len(checks) |-> debugSection(k, checks[k])])

\* docker.ts 263-287: every check runs in its own try block (timeout 5 s) and
\* adds its section, "--- check ---" and stdout or "Error: ..."
checkPermissions(checks) ==
  Returns([k \in 1..Len(checks) |-> debugSection(k, checks[k])])

T_Created == <<"Created app/__init__.py">>
T_Found == <<"Found Python files in app/">>
T_NoFixes == <<"No fixes needed">>
FixErrorPrefix == <<"Error fixing Python package issues: ">>

\* docker.ts 205-215: test -f app/__init__.py, else touch it and test again
initFileFixes(test, touch, verify) ==
  IF ~test.rejected THEN Returns(<< >>)
  ELSE IF touch.rejected THEN Throws(touch.message)
  ELSE IF verify.rejected THEN Throws(verify.message)
  ELSE Returns(T_Created)

\* the rejection of touch, of the second test or of find escapes
fixPythonPackageIssuesPropagates(test, touch, verify, find) ==
  LET init == initFileFixes(test, touch, verify) IN
    IF init.threw THEN init
    ELSE IF find.rejected THEN Throws(find.message)
    ELSE LET fixes == init.value
                      \o (IF find.stdout # Empty THEN T_Found ELSE << >>)
         IN Returns(IF fixes # << >> THEN fixes ELSE T_NoFixes)

\* docker.ts 200-227: the outer catch turns every rejection into a string
fixPythonPackageIssues(test, touch, verify, find) ==
  LET init == initFileFixes(test, touch, verify) IN
    IF init.threw THEN Returns(FixErrorPrefix \o init.value.text)
    ELSE IF find.rejected THEN Returns(FixErrorPrefix \o find.message)
    ELSE LET fixes == init.value
                      \o (IF find.stdout # Empty THEN T_Found ELSE << >>)
         IN Returns(IF fixes # << >> THEN fixes ELSE T_NoFixes)

\* any text on stderr counts as a failure
hasAnyStderr(stderr) == stderr # Empty

\* docker.ts 48 and 64: the failure markers looked for in stderr
hasFailureMarker(stderr) ==
  /\ stderr # Empty
  /\ \/ Includes(stderr, T_ERROR)
     \/ Includes(stderr, T_error)
     \/ Includes(stderr, T_failed)

\* the status test without the restart-loop marker
notRunningExitedOrDead(statusOutput) ==
  \/ Includes(statusOutput, T_Exited)
  \/ Includes(statusOutput, T_Dead)

\* docker.ts 84
notRunning(statusOutput) ==
  \/ Includes(statusOutput, T_Exited)
  \/ Includes(statusOutput, T_Dead)
  \/ Includes(statusOutput, T_Restarting)

\* a build whose stderr carries a failure marker is followed by the start
afterBuildUnchecked(buildError) == "up"

\* docker.ts 48-54: a marked build ends deployRepository
afterBuild(buildError) ==
  IF hasFailureMarker(buildError) THEN "return" ELSE "up"

\* docker.ts 64-70: a marked start ends deployRepository
afterUp(upError) ==
  IF hasFailureMarker(upError) THEN "return" ELSE "ps"

\* stderr of a teardown that exits normally is followed by the catch
afterDownStderrFails(downError) ==
  IF downError # Empty THEN "catch" ELSE "removeOrphans"

\* docker.ts 16-23: whatever `docker compose down` wrote to stderr, with or
\* without "No containers to stop", is at most warned about
afterDown(downError) == "removeOrphans"

\* how the promise of the orphan cleanup settled
CleanupFulfilled == <<"fulfilled">>
CleanupRejected  == <<"rejected">>

\* a rejected cleanup is followed by the catch
afterCleanupPropagates(settled) ==
  IF settled = CleanupRejected THEN "catch" ELSE "sync"

\* docker.ts 27-30: .catch(() => {}) turns a rejection into a fulfilment
afterCleanup(settled) == "sync"

\* downError / buildError / upError before the command that assigns them
\* has resolved, and the cleanup promise before it settled
NotCaptured == <<"<not captured>">>
NoStderrs == [permissions |-> NotCaptured, fixes |-> NotCaptured,
              down |-> NotCaptured, cleanup |-> NotCaptured,
              build |-> NotCaptured, up |-> NotCaptured]

buildErrorOutcome(buildError) ==
  Outcome(FALSE, Msg(<<"Docker Compose build error: ">>, buildError))
upErrorOutcome(upError) ==
  Outcome(FALSE, Msg(<<"Docker Compose error: ">>, upError))
notRunningOutcome(statusOutput) ==
  Outcome(FALSE, Msg(<<"Container failed to start properly: ">>, statusOutput))
deployedOutcome(repoName) ==
  Outcome(TRUE, Msg(<<"Successfully deployed ", ". Build: ", ", Start: ">>,
                    repoName))
\* docker.ts 98-106
dockerCatchOutcome(errorMessage) ==
  Outcome(FALSE, Msg(<<"Deployment failed: ">>, errorMessage))

\* texts of a rejected child process (error.stderr || error.message)
ErrTexts == {T_fatal}
\* how a git command of the source sync can end
GitOutcomes == {CmdOk} \cup {CmdRejected(t) : t \in ErrTexts}
\* stderr of a build or up command that exits normally
StderrSamples == {Empty, T_warn, T_ERROR, T_error, T_failed, T_Error}
\* stderr of `docker compose down` that exits normally: progress text when
\* an instance was stopped, a notice when there was none
T_NoContainers == <<"N","o"," ","c","o","n","t","a","i","n","e","r","s"," ",
                    "t","o"," ","s","t","o","p">>
DownStderrs == {T_warn, T_NoContainers}
\* stderr of a rejected orphan cleanup
T_orphan == <<"o","r","p","h","a","n">>
\* stdout of the status probe
StatusSamples == {T_Up, T_Exited, T_Dead, T_Restarting}

(***************************************************************************)
(* State                                                                   *)
(***************************************************************************)
Slots == {"h1", "h2"}

VARIABLES
  server,        \* the process: starting, exited, or listening for requests
  secret,        \* GITHUB_WEBHOOK_SECRET as configured, WebhookValidator.secret
  listing,       \* directory lines of `ls -la <appsDir>` (last field of each)
  disk,          \* per directory: is it a checkout, its branch, its descriptor
  pc,            \* per slot: position of handleGitHubWebhook
  req,           \* per slot: the inbound request
  resp,          \* per slot: the HTTP response sent
  branch,        \* per slot: pushedBranch
  repositories,  \* per slot: the catalog returned by getRepositories
  scanned,       \* per slot: what the commands of that scan did (ls exit,
                 \* listing lines whose reading was rejected)
  matching,      \* per slot: matchingRepos
  results,       \* per slot: results
  rpc,           \* per slot, per match: position inside deployRepository
  pres,          \* per slot, per match: pullResult of the source sync
  dres,          \* per slot, per match: deployResult of the workload controller
  probe,         \* per slot, per match: statusOutput of the status probe
  stderrs,       \* per slot, per match: downError, buildError and upError as
                 \* captured and how the cleanup settled, while
                 \* DockerManager.deployRepository is running up to the
                 \* build (downError, cleanup) or to the probe
  calls,         \* per slot: collaborator invocations made, in order
  vcall          \* a direct call of a collaborator: its arguments and result

vars == <<server, secret, listing, disk, pc, req, resp, branch, repositories, scanned,
          matching, results, rpc, pres, dres, probe, stderrs, calls, vcall>>

env == <<server, secret, listing, disk, vcall>>

NoReq == [raw |-> NoPayload, sigFmt |-> "missing", sigKey |-> "", event |-> ""]
NoResp == [status |-> 0, kind |-> "", deployments |-> 0]
Resp(status, kind, n) == [status |-> status, kind |-> kind, deployments |-> n]

\* no scan made yet
NoScan == [lsOk |-> FALSE, faults |-> {0}]

NoCall == [secret |-> "", payload |-> NoPayload, signature |-> << >>,
           result |-> "none"]

EventTypes == {"push", "ping"}

\* the signature header of a request
Header(rq) == FormatHeader(rq.sigFmt, generateSignature(rq.sigKey, rq.raw))

\* a correctly signed push in the serialisation the handler hashes, with any
\* body; and one body in every layout, header format, signing key and event
SignedPush(b) ==
  [raw |-> JsonStringify(b), sigFmt |-> "bare", sigKey |-> "k1",
   event |-> "push"]
SampleBody ==
  [name |-> N_svc, ref |-> <<RefsHeads>> \o B_main, hasCommit |-> TRUE]
Requests ==
  {SignedPush(b) : b \in Bodies}
  \cup [raw : {[body |-> SampleBody, layout |-> l] : l \in Layouts},
        sigFmt : HeaderFormats, sigKey : Secrets, event : EventTypes]

SvcStates == {NotGit} \cup {Checkout(b, c) : b \in Branches, c \in BOOLEAN}
ApiStates == {Checkout(B_main, TRUE)}

Listings ==
  {<<N_dot, N_dotdot>> \o s :
     s \in UNION {[1..n -> DiskNames] : n \in 0..MaxDirs}}

Init ==
  /\ server = "listening"
  /\ secret = "k1"
  /\ listing \in Listings
  /\ \E s \in SvcStates, a \in ApiStates :
       disk = [n \in DiskNames |->
                 IF n = N_svc THEN s
                 ELSE IF n = N_api THEN a
                 ELSE Checkout(B_main, TRUE)]
  /\ pc = [r \in Slots |-> "idle"]
  /\ req = [r \in Slots |-> NoReq]
  /\ resp = [r \in Slots |-> NoResp]
  /\ branch = [r \in Slots |-> << >>]
  /\ repositories = [r \in Slots |-> << >>]
  /\ scanned = [r \in Slots |-> NoScan]
  /\ matching = [r \in Slots |-> << >>]
  /\ results = [r \in Slots |-> << >>]
  /\ rpc = [r \in Slots |-> << >>]
  /\ pres = [r \in Slots |-> << >>]
  /\ dres = [r \in Slots |-> << >>]
  /\ probe = [r \in Slots |-> << >>]
  /\ stderrs = [r \in Slots |-> << >>]
  /\ calls = [r \in Slots |-> << >>]
  /\ vcall = NoCall

Call(op, i) == [op |-> op, i |-> i]
Log(r, op, i) == calls' = [calls EXCEPT ![r] = Append(@, Call(op, i))]

(***************************************************************************)
(* handleGitHubWebhook, webhook.ts 18-72                                   *)
(***************************************************************************)
\* webhook.ts 21: the string handed to verifySignature
signedPayload(raw) == JsonStringify(JsonParse(raw))

\* webhook.ts 18-45: everything up to the call of processPushEvent
\* the 401 branch without its return statement
admissionFallsThrough(key, rq) ==
  IF ~verifySignature(key, signedPayload(rq.raw), Header(rq))
  THEN [resp |-> Resp(401, "Invalid signature", 0),
        next |-> "processPushEvent"]
  ELSE IF rq.event # "push"
  THEN [resp |-> Resp(200, "Event ignored", 0), next |-> "responded"]
  ELSE [resp |-> NoResp, next |-> "processPushEvent"]

\* every authenticated event is treated as a push
admissionAnyEvent(key, rq) ==
  IF ~verifySignature(key, signedPayload(rq.raw), Header(rq))
  THEN [resp |-> Resp(401, "Invalid signature", 0), next |-> "responded"]
  ELSE IF ~JsonParse(rq.raw).hasCommit
  THEN [resp |-> Resp(500, "Internal server error", 0), next |-> "responded"]
  ELSE [resp |-> NoResp, next |-> "processPushEvent"]

\* webhook.ts 19-45: the response sent before any processing, and where
\* the handler goes next
admission(key, rq) ==
  IF ~verifySignature(key, signedPayload(rq.raw), Header(rq))
  THEN [resp |-> Resp(401, "Invalid signature", 0), next |-> "responded"]
  ELSE IF rq.event # "push"
  THEN [resp |-> Resp(200, "Event ignored", 0), next |-> "responded"]
  ELSE IF ~JsonParse(rq.raw).hasCommit
  THEN \* line 43 reads head_commit.id of null: caught at line 65
       [resp |-> Resp(500, "Internal server error", 0), next |-> "responded"]
  ELSE [resp |-> NoResp, next |-> "processPushEvent"]

Receive(r) ==
  /\ server = "listening"
  /\ pc[r] = "idle"
  /\ \E rq \in Requests :
       /\ req' = [req EXCEPT ![r] = rq]
       /\ resp' = [resp EXCEPT ![r] = admission(secret, rq).resp]
       /\ pc' = [pc EXCEPT ![r] = admission(secret, rq).next]
  /\ UNCHANGED <<env, branch, repositories, scanned, matching, results, rpc, pres, dres,
                 probe, stderrs, calls>>

(***************************************************************************)
(* processPushEvent, deployment.ts 17-63                                   *)
(***************************************************************************)
\* lines 22-28: derive the branch and start the catalog scan; a payload
\* without ref makes line 138 throw, which line 51 catches
processPushEvent(r) ==
  /\ pc[r] = "processPushEvent"
  /\ LET ref == JsonParse(req[r].raw).ref IN
       IF ref = NoRef
       THEN LET done == processPushCatch(results[r], T_TypeError) IN
              /\ results' = [results EXCEPT ![r] = done.results]
              /\ pc' = [pc EXCEPT ![r] = IF done.threw THEN "threw" ELSE "return"]
              /\ UNCHANGED branch
       ELSE /\ branch' = [branch EXCEPT ![r] = extractBranchFromRef(ref)]
            /\ pc' = [pc EXCEPT ![r] = "getRepositories"]
            /\ UNCHANGED results
  /\ UNCHANGED <<env, req, resp, repositories, scanned, matching, rpc, pres, dres, probe, stderrs, calls>>

\* lines 28-43: the scan returns, the matches are selected
Scan(r) ==
  /\ pc[r] = "getRepositories"
  /\ \E lsOk \in BOOLEAN, faults \in SUBSET Readable(listing, disk) :
       LET repos == getRepositories(listing, disk, lsOk, faults)
           m == matchingRepos(repos, JsonParse(req[r].raw).name, branch[r])
       IN /\ repositories' = [repositories EXCEPT ![r] = repos]
          /\ scanned' = [scanned EXCEPT ![r] =
                           [lsOk |-> lsOk,
                            faults |-> IF lsOk THEN faults ELSE {}]]
          /\ matching' = [matching EXCEPT ![r] = m]
          /\ rpc' = [rpc EXCEPT ![r] = [i \in 1..Len(m) |-> "pending"]]
          /\ pres' = [pres EXCEPT ![r] = [i \in 1..Len(m) |-> NoOutcome]]
          /\ dres' = [dres EXCEPT ![r] = [i \in 1..Len(m) |-> NoOutcome]]
          /\ pc' = [pc EXCEPT ![r] = IF Len(m) = 0 THEN "return" ELSE "loop"]
  /\ Log(r, "getRepositories", 0)
  /\ probe' = [probe EXCEPT ![r] = [i \in 1..Len(matching'[r]) |-> Empty]]
  /\ stderrs' = [stderrs EXCEPT ![r] = [i \in 1..Len(matching'[r]) |-> NoStderrs]]
  /\ UNCHANGED <<env, req, resp, branch, results>>

\* every iteration is started without awaiting the previous one
loopFansOut(positions, i) == TRUE

\* line 47: the loop awaits deployRepository before the next iteration
loopAwaits(positions, i) == \A j \in 1..(i - 1) : positions[j] = "done"

\* the newest result goes to the front of the list
pushResultPrepends(rs, result) == <<result>> \o rs

\* only successes are collected
pushResultIfSuccess(rs, result) ==
  IF result.success THEN Append(rs, result) ELSE rs

\* line 48
pushResult(rs, result) == Append(rs, result)

\* lines 46-47: the next iteration calls deployRepository
LoopStart(r) ==
  /\ pc[r] = "loop"
  /\ \E i \in 1..Len(rpc[r]) :
       /\ rpc[r][i] = "pending"
       /\ \A j \in 1..(i - 1) : rpc[r][j] # "pending"
       /\ loopAwaits(rpc[r], i)
       /\ rpc' = [rpc EXCEPT ![r][i] = "pullLatestChanges"]
  /\ UNCHANGED <<env, pc, req, resp, branch, repositories, scanned, matching, results,
                 pres, dres, probe, stderrs, calls>>

\* line 49-62: every match has been processed, the list is returned
LoopEnd(r) ==
  /\ pc[r] = "loop"
  /\ \A i \in 1..Len(rpc[r]) : rpc[r][i] = "done"
  /\ pc' = [pc EXCEPT ![r] = "return"]
  /\ UNCHANGED <<env, req, resp, branch, repositories, scanned, matching, results, rpc,
                 pres, dres, probe, stderrs, calls>>

(***************************************************************************)
(* deployRepository, deployment.ts 68-130                                  *)
(***************************************************************************)
\* a position is named after the collaborator step that runs next
InFlight == {"pullLatestChanges", "checkPermissions",
             "fixPythonPackageIssues", "down", "removeOrphans", "sync",
             "contextCheck", "build", "up", "ps", "deployed",
             "getContainerLogs", "getContainerStatus"}

At(r, i, where) ==
  /\ pc[r] = "loop"
  /\ i \in 1..Len(rpc[r])
  /\ rpc[r][i] = where

Goto(r, i, where) == rpc' = [rpc EXCEPT ![r][i] = where]

\* deployRepository returns `result`; line 48 pushes it
Finish(r, i, result) ==
  /\ rpc' = [rpc EXCEPT ![r][i] = "done"]
  /\ results' = [results EXCEPT ![r] = pushResult(@, result)]

shell == <<env, pc, req, resp, branch, repositories, scanned, matching>>

\* the pull result is not looked at
afterPullUnchecked(pullResult) == "checkPermissions"

\* line 77: a failed pull ends deployRepository
afterPull(pullResult) ==
  IF ~pullResult.success THEN "return" ELSE "checkPermissions"

\* lines 75-85: pullLatestChanges (git.ts 227-247)
Pull(r, i) ==
  /\ At(r, i, "pullLatestChanges")
  /\ Log(r, "pullLatestChanges", i)
  /\ \E config \in GitOutcomes, pull \in GitOutcomes :
       LET pullResult == pullLatestChanges(config, pull)
       IN /\ pres' = [pres EXCEPT ![r][i] = pullResult]
          /\ IF afterPull(pullResult) = "return"
             THEN Finish(r, i, pullFailedResult(matching[r][i], branch[r],
                                                pullResult))
             ELSE Goto(r, i, afterPull(pullResult)) /\ UNCHANGED results
  /\ UNCHANGED <<shell, dres, probe, stderrs>>

\* outcomes of the commands run between the sync and the redeploy
T_out == <<"o", "u", "t">>
PermissionInputs ==
  {[k \in 1..PermissionChecks |-> ProbeOk(T_out)],
   [k \in 1..PermissionChecks |->
      IF k = 2 THEN ProbeRejected(T_fatal) ELSE ProbeOk(T_out)],
   [k \in 1..PermissionChecks |-> ProbeRejected(Empty)]}
FixInputs == {ProbeOk(Empty), ProbeRejected(T_fatal)}
FindInputs == {ProbeOk(Empty), ProbeOk(T_out), ProbeRejected(T_fatal)}

\* line 90: checkPermissions (docker.ts 263-287); an exception would be
\* caught at line 120
CheckPermissions(r, i) ==
  /\ At(r, i, "checkPermissions")
  /\ Log(r, "checkPermissions", i)
  /\ \E checks \in PermissionInputs :
       LET permissionCheck == checkPermissions(checks) IN
         IF permissionCheck.threw
         THEN /\ Finish(r, i, deployRepositoryCatch(matching[r][i], branch[r],
                                                    permissionCheck.value.text))
              /\ UNCHANGED stderrs
         ELSE /\ stderrs' = [stderrs EXCEPT
                               ![r][i].permissions = permissionCheck.value]
              /\ Goto(r, i, "fixPythonPackageIssues")
              /\ UNCHANGED results
  /\ UNCHANGED <<shell, pres, dres, probe>>

\* lines 94-97: fixPythonPackageIssues (docker.ts 200-227); an exception
\* would be caught at line 120
FixPythonPackageIssues(r, i) ==
  /\ At(r, i, "fixPythonPackageIssues")
  /\ Log(r, "fixPythonPackageIssues", i)
  /\ \E test \in FixInputs, touch \in FixInputs, verify \in FixInputs,
        find \in FindInputs :
       LET fixResult == fixPythonPackageIssues(test, touch, verify, find) IN
         IF fixResult.threw
         THEN /\ Finish(r, i, deployRepositoryCatch(matching[r][i], branch[r],
                                                    fixResult.value.text))
              /\ UNCHANGED stderrs
         ELSE /\ stderrs' = [stderrs EXCEPT
                               ![r][i] = [NoStderrs EXCEPT
                                            !.fixes = fixResult.value]]
              /\ Goto(r, i, "down")
              /\ UNCHANGED results
  /\ UNCHANGED <<shell, pres, dres, probe>>

\* the awaits of lines 75, 100 and 105 at which a raise is injected
ThrowPoints == {"pullLatestChanges", "down", "getContainerLogs"}

\* the collaborator step in flight raises: an exception inside the try
\* block of lines 71-119 is caught at line 120
DeployRepositoryThrows(r, i) ==
  /\ pc[r] = "loop"
  /\ i \in 1..Len(rpc[r])
  /\ rpc[r][i] \in ThrowPoints
  /\ Log(r, rpc[r][i], i)
  /\ \E error \in ErrTexts :
       Finish(r, i, deployRepositoryCatch(matching[r][i], branch[r], error))
  /\ UNCHANGED <<shell, pres, dres, probe, stderrs>>

\* a failed redeploy is followed by a fresh start of the workload
afterRedeployRestartsOnFailure(deployResult) ==
  IF deployResult.success THEN "deployed" ELSE "up"

\* deployment.ts 100-110: after dockerManager.deployRepository returned, a
\* failure is followed by the two diagnostic reads, a success by nothing
afterRedeploy(deployResult) ==
  IF deployResult.success THEN "deployed" ELSE "getContainerLogs"

(***************************************************************************)
(* DockerManager.deployRepository, docker.ts 10-107                        *)
(***************************************************************************)
\* the workload controller returns `outcome` to deployment.ts 100, its
\* locals are gone; a failed outcome sends the caller to the debugging block
\* of lines 103-110
DockerReturns(r, i, outcome) ==
  /\ dres' = [dres EXCEPT ![r][i] = outcome]
  /\ stderrs' = [stderrs EXCEPT ![r][i] = NoStderrs]
  /\ Goto(r, i, afterRedeploy(outcome))
  /\ UNCHANGED results

\* docker.ts 16-23: docker compose down; stderr only warns
Down(r, i) ==
  /\ At(r, i, "down")
  /\ Log(r, "down", i)
  /\ \/ \E errorMessage \in ErrTexts :
          DockerReturns(r, i, dockerCatchOutcome(errorMessage))
     \/ \E downError \in DownStderrs :
          IF afterDown(downError) = "catch"
          THEN DockerReturns(r, i, dockerCatchOutcome(downError))
          ELSE /\ stderrs' = [stderrs EXCEPT
                              ![r][i] = [NoStderrs EXCEPT !.down = downError]]
               /\ Goto(r, i, afterDown(downError))
               /\ UNCHANGED <<results, dres>>
  /\ UNCHANGED <<shell, pres, probe>>

\* docker.ts 27-30: cleanup, rejections ignored
RemoveOrphans(r, i) ==
  /\ At(r, i, "removeOrphans")
  /\ Log(r, "removeOrphans", i)
  /\ \E settled \in {CleanupFulfilled, CleanupRejected} :
       IF afterCleanup(settled) = "catch"
       THEN DockerReturns(r, i, dockerCatchOutcome(T_orphan))
       ELSE /\ stderrs' = [stderrs EXCEPT ![r][i].cleanup = settled]
            /\ Goto(r, i, afterCleanup(settled))
            /\ UNCHANGED <<results, dres>>
  /\ UNCHANGED <<shell, pres, probe>>

\* docker.ts 34: sync, rejections ignored
SyncFiles(r, i) ==
  /\ At(r, i, "sync")
  /\ Log(r, "sync", i)
  /\ \E rejects \in BOOLEAN : Goto(r, i, "contextCheck")
  /\ UNCHANGED <<shell, results, pres, dres, probe, stderrs>>

\* docker.ts 38-39: build context listing
ContextCheck(r, i) ==
  /\ At(r, i, "contextCheck")
  /\ Log(r, "contextCheck", i)
  /\ \E rejects \in BOOLEAN, errorMessage \in ErrTexts :
       IF rejects
       THEN DockerReturns(r, i, dockerCatchOutcome(errorMessage))
       ELSE Goto(r, i, "build") /\ UNCHANGED <<results, dres, stderrs>>
  /\ UNCHANGED <<shell, pres, probe>>

\* docker.ts 43-54: docker compose build --no-cache
Build(r, i) ==
  /\ At(r, i, "build")
  /\ Log(r, "build", i)
  /\ \/ \E errorMessage \in ErrTexts :
          DockerReturns(r, i, dockerCatchOutcome(errorMessage))
     \/ \E buildError \in StderrSamples :
          IF afterBuild(buildError) = "return"
          THEN DockerReturns(r, i, buildErrorOutcome(buildError))
          ELSE /\ stderrs' = [stderrs EXCEPT
                              ![r][i] = [NoStderrs EXCEPT !.build = buildError]]
               /\ Goto(r, i, afterBuild(buildError))
               /\ UNCHANGED <<results, dres>>
  /\ UNCHANGED <<shell, pres, probe>>

\* docker.ts 58-70: docker compose up --force-recreate -d
Up(r, i) ==
  /\ At(r, i, "up")
  /\ Log(r, "up", i)
  /\ \/ \E errorMessage \in ErrTexts :
          DockerReturns(r, i, dockerCatchOutcome(errorMessage))
     \/ \E upError \in StderrSamples :
          IF afterUp(upError) = "return"
          THEN DockerReturns(r, i, upErrorOutcome(upError))
          ELSE /\ stderrs' = [stderrs EXCEPT ![r][i].up = upError]
               /\ Goto(r, i, afterUp(upError))
               /\ UNCHANGED <<results, dres>>
  /\ UNCHANGED <<shell, pres, probe>>

\* docker.ts 84-96: the verdict on the output of the status probe
statusVerdict(repoName, statusOutput) ==
  IF notRunning(statusOutput)
  THEN notRunningOutcome(statusOutput)
  ELSE deployedOutcome(repoName)

\* docker.ts 73-96: settle delay, docker compose ps, verdict
Verify(r, i) ==
  /\ At(r, i, "ps")
  /\ Log(r, "ps", i)
  /\ \/ /\ \E errorMessage \in ErrTexts :
             DockerReturns(r, i, dockerCatchOutcome(errorMessage))
        /\ UNCHANGED probe
     \/ \E statusOutput \in StatusSamples :
          /\ probe' = [probe EXCEPT ![r][i] = statusOutput]
          /\ DockerReturns(r, i, statusVerdict(matching[r][i].name,
                                               statusOutput))
  /\ UNCHANGED <<shell, pres>>

\* outcomes of the diagnostic probes run for a failed redeploy
DiagOutcomes == {ProbeOk(T_Exited), ProbeRejected(T_fatal), ProbeRejected(Empty)}

\* deployment.ts 105: getContainerLogs (docker.ts 138-148); an exception
\* would be caught at deployment.ts 120
GetContainerLogs(r, i) ==
  /\ At(r, i, "getContainerLogs")
  /\ Log(r, "getContainerLogs", i)
  /\ \E logs \in DiagOutcomes :
       IF getContainerLogs(logs).threw
       THEN Finish(r, i, deployRepositoryCatch(matching[r][i], branch[r],
                                               logs.message))
       ELSE Goto(r, i, "getContainerStatus") /\ UNCHANGED results
  /\ UNCHANGED <<shell, pres, dres, probe, stderrs>>

\* deployment.ts 106-118: getContainerStatus (docker.ts 185-195), then the
\* result wraps deployResult
GetContainerStatus(r, i) ==
  /\ At(r, i, "getContainerStatus")
  /\ Log(r, "getContainerStatus", i)
  /\ \E ps \in DiagOutcomes :
       IF getContainerStatus(ps).threw
       THEN Finish(r, i, deployRepositoryCatch(matching[r][i], branch[r],
                                               ps.message))
       ELSE Finish(r, i, deployedResult(matching[r][i], branch[r],
                                        dres[r][i]))
  /\ UNCHANGED <<shell, pres, dres, probe, stderrs>>

\* deployment.ts 103, 112-118: the redeploy succeeded, the debugging block is
\* skipped and the result wraps deployResult
Deployed(r, i) ==
  /\ At(r, i, "deployed")
  /\ Finish(r, i, deployedResult(matching[r][i], branch[r], dres[r][i]))
  /\ UNCHANGED <<shell, pres, dres, probe, stderrs, calls>>

(***************************************************************************)
(* handleGitHubWebhook, the response                                       *)
(***************************************************************************)
\* the status follows the results: 500 as soon as one deployment failed
RespondReflectsFailure(r) ==
  /\ pc[r] \in {"return", "threw"}
  /\ resp' = [resp EXCEPT ![r] =
                IF pc[r] = "threw"
                   \/ \E i \in 1..Len(results[r]) : ~results[r][i].success
                THEN Resp(500, "Internal server error", 0)
                ELSE Resp(200, "Webhook processed successfully",
                          Len(results[r]))]
  /\ pc' = [pc EXCEPT ![r] = "responded"]
  /\ UNCHANGED <<env, req, branch, repositories, scanned, matching, results, rpc, pres,
                 dres, probe, stderrs, calls>>

\* webhook.ts 47-63
Respond(r) ==
  /\ pc[r] \in {"return", "threw"}
  /\ resp' = [resp EXCEPT ![r] =
                IF pc[r] = "threw"
                THEN Resp(500, "Internal server error", 0)
                ELSE Resp(200, "Webhook processed successfully",
                          Len(results[r]))]
  /\ pc' = [pc EXCEPT ![r] = "responded"]
  /\ UNCHANGED <<env, req, branch, repositories, scanned, matching, results, rpc, pres,
                 dres, probe, stderrs, calls>>

\* the request is over; its locals are gone
Forget(r) ==
  /\ pc[r] = "responded"
  /\ pc' = [pc EXCEPT ![r] = "idle"]
  /\ req' = [req EXCEPT ![r] = NoReq]
  /\ resp' = [resp EXCEPT ![r] = NoResp]
  /\ branch' = [branch EXCEPT ![r] = << >>]
  /\ repositories' = [repositories EXCEPT ![r] = << >>]
  /\ scanned' = [scanned EXCEPT ![r] = NoScan]
  /\ matching' = [matching EXCEPT ![r] = << >>]
  /\ results' = [results EXCEPT ![r] = << >>]
  /\ rpc' = [rpc EXCEPT ![r] = << >>]
  /\ pres' = [pres EXCEPT ![r] = << >>]
  /\ dres' = [dres EXCEPT ![r] = << >>]
  /\ probe' = [probe EXCEPT ![r] = << >>]
  /\ stderrs' = [stderrs EXCEPT ![r] = << >>]
  /\ calls' = [calls EXCEPT ![r] = << >>]
  /\ UNCHANGED env

(***************************************************************************)
(* Specifications                                                          *)
(***************************************************************************)
\* the continuations of a handler once its request is admitted
Process(r) ==
  \/ processPushEvent(r)
  \/ Scan(r)
  \/ LoopStart(r)
  \/ LoopEnd(r)
  \/ Respond(r)
  \/ Forget(r)
  \/ \E i \in 1..(MaxDirs + 1) :
       \/ Pull(r, i)
       \/ CheckPermissions(r, i)
       \/ FixPythonPackageIssues(r, i)
       \/ Down(r, i)
       \/ RemoveOrphans(r, i)
       \/ SyncFiles(r, i)
       \/ ContextCheck(r, i)
       \/ Build(r, i)
       \/ Up(r, i)
       \/ Verify(r, i)
       \/ GetContainerLogs(r, i)
       \/ GetContainerStatus(r, i)
       \/ Deployed(r, i)

Step(r) == Receive(r) \/ Process(r)

\* one request at a time
Next == Step("h1")

Spec == Init /\ [][Next]_vars

\* fault injection: a collaborator raises although its own handlers are
\* meant to swallow everything
NextThrow == Next \/ \E i \in 1..(MaxDirs + 1) : DeployRepositoryThrows("h1", i)

SpecThrow == Init /\ [][NextThrow]_vars

(***************************************************************************)
(* Status query and changes of the apps directory                          *)
(***************************************************************************)
StatusReq == [NoReq EXCEPT !.event = "GET /status"]

\* a scan started while another caller still holds records returns nothing
StatusQueryOneAtATime(r) ==
  /\ server = "listening"
  /\ pc[r] = "idle"
  /\ req' = [req EXCEPT ![r] = StatusReq]
  /\ \E lsOk \in BOOLEAN, faults \in SUBSET Readable(listing, disk) :
       LET repos == IF \E q \in Slots \ {r} : scanned[q] # NoScan
                    THEN << >>
                    ELSE getRepositories(listing, disk, lsOk, faults)
       IN /\ repositories' = [repositories EXCEPT ![r] = repos]
          /\ scanned' = [scanned EXCEPT ![r] =
                           [lsOk |-> lsOk,
                            faults |-> IF lsOk THEN faults ELSE {}]]
          /\ resp' = [resp EXCEPT ![r] = Resp(200, "repositories", Len(repos))]
  /\ Log(r, "getRepositories", 0)
  /\ pc' = [pc EXCEPT ![r] = "responded"]
  /\ UNCHANGED <<env, branch, matching, results, rpc, pres, dres, probe, stderrs>>

\* webhook.ts 104-119 with deployment.ts 144-146: the status route scans
\* and answers with the records
StatusQuery(r) ==
  /\ server = "listening"
  /\ pc[r] = "idle"
  /\ req' = [req EXCEPT ![r] = StatusReq]
  /\ \E lsOk \in BOOLEAN, faults \in SUBSET Readable(listing, disk) :
       LET repos == getRepositories(listing, disk, lsOk, faults)
       IN /\ repositories' = [repositories EXCEPT ![r] = repos]
          /\ scanned' = [scanned EXCEPT ![r] =
                           [lsOk |-> lsOk,
                            faults |-> IF lsOk THEN faults ELSE {}]]
          /\ resp' = [resp EXCEPT ![r] = Resp(200, "repositories", Len(repos))]
  /\ Log(r, "getRepositories", 0)
  /\ pc' = [pc EXCEPT ![r] = "responded"]
  /\ UNCHANGED <<env, branch, matching, results, rpc, pres, dres, probe, stderrs>>

\* between two calls an operator switches a checkout's branch, adds or
\* removes its descriptor, or creates or removes directories
DiskChanges ==
  /\ \A r \in Slots : pc[r] = "idle"
  /\ listing' \in Listings
  /\ \E s \in SvcStates, a \in ApiStates :
       disk' = [n \in DiskNames |->
                  IF n = N_svc THEN s
                  ELSE IF n = N_api THEN a
                  ELSE Checkout(B_main, TRUE)]
  /\ UNCHANGED <<server, secret, vcall, pc, req, resp, branch, repositories, scanned,
                 matching, results, rpc, pres, dres, probe, stderrs, calls>>

\* the apps directory the operator starts from
InitCatalog ==
  /\ Init
  /\ listing = <<N_dot, N_dotdot, N_svc>>
  /\ disk[N_svc] = Checkout(B_main, TRUE)

NextCatalog == Next \/ StatusQuery("h1") \/ DiskChanges

\* an applications directory with two entries
InitTwoDirs == Init /\ Len(listing) = 4

SpecTwoDirs == InitTwoDirs /\ [][Next]_vars

SpecCatalog == InitCatalog /\ [][NextCatalog]_vars

\* two status queries, each caller keeping its answer until it forgets it;
\* the apps directory changes only while no answer is held, so two answers
\* held together come from scans with no change in between
NextTwice ==
  \/ \E r \in Slots : StatusQuery(r) \/ Forget(r)
  \/ DiskChanges

SpecTwice == Init /\ [][NextTwice]_vars

(***************************************************************************)
(* External commands that never exit                                       *)
(***************************************************************************)
\* the timeout option, in milliseconds, of the exec calls behind each step;
\* 0 is exec's default: the child is never killed
timeoutOf(op) ==
  CASE op = "getRepositories"        -> 0
    [] op = "pullLatestChanges"      -> 0
    [] op = "checkPermissions"       -> 5000
    [] op = "fixPythonPackageIssues" -> 0
    [] op = "down"                   -> 60000
    [] op = "removeOrphans"          -> 30000
    [] op = "sync"                   -> 10000
    [] op = "contextCheck"           -> 0
    [] op = "build"                  -> 300000
    [] op = "up"                     -> 60000
    [] op = "ps"                     -> 10000
    [] op = "getContainerLogs"       -> 10000
    [] op = "getContainerStatus"     -> 10000
    [] OTHER                         -> 0

\* a step whose command was killed is started again
afterRejectionRetries(op) == op

\* where a step goes when its command is rejected: "catch" is the handler
\* of docker.ts 98-106, the others swallow the rejection and go on
afterRejection(op) ==
  CASE op \in {"down", "contextCheck", "build", "up", "ps"} -> "catch"
    [] op = "checkPermissions"   -> "fixPythonPackageIssues"
    [] op = "removeOrphans"      -> "sync"
    [] op = "sync"               -> "contextCheck"
    [] op = "getContainerLogs"   -> "getContainerStatus"
    [] op = "getContainerStatus" -> "return"
    [] OTHER                     -> "return"

LastOp(r) == calls[r][Len(calls[r])].op

\* the scan's `ls -la` is started and never exits
ScanHangs(r) ==
  /\ pc[r] = "getRepositories"
  /\ Log(r, "getRepositories", 0)
  /\ pc' = [pc EXCEPT ![r] = "hung"]
  /\ UNCHANGED <<env, req, resp, branch, repositories, scanned, matching,
                 results, rpc, pres, dres, probe, stderrs>>

\* the command of the step in flight is started and never exits
Hangs(r, i) ==
  /\ pc[r] = "loop"
  /\ i \in 1..Len(rpc[r])
  /\ rpc[r][i] \in InFlight \ {"deployed"}
  /\ Log(r, rpc[r][i], i)
  /\ Goto(r, i, "hung")
  /\ UNCHANGED <<shell, results, pres, dres, probe, stderrs>>

\* exec kills the child when its timeout expires and rejects
TimeoutKills(r, i) ==
  /\ At(r, i, "hung")
  /\ timeoutOf(LastOp(r)) > 0
  /\ LET next == afterRejection(LastOp(r)) IN
       IF next = "catch"
       THEN DockerReturns(r, i, dockerCatchOutcome(T_CommandFailed))
            /\ UNCHANGED <<results>>
       ELSE IF next = "return"
       THEN Finish(r, i, deployedResult(matching[r][i], branch[r], dres[r][i]))
            /\ UNCHANGED <<dres, stderrs>>
       ELSE /\ Goto(r, i, next)
            /\ stderrs' = IF LastOp(r) = "removeOrphans"
                          THEN [stderrs EXCEPT ![r][i].cleanup = CleanupRejected]
                          ELSE stderrs
            /\ UNCHANGED <<results, dres>>
  /\ UNCHANGED <<shell, pres, probe, calls>>

NextHang ==
  \/ Next
  \/ ScanHangs("h1")
  \/ \E i \in 1..(MaxDirs + 1) : Hangs("h1", i) \/ TimeoutKills("h1", i)

\* what the event loop runs whenever it can: the continuations of the
\* handler and the timers of exec
Progress ==
  \/ Process("h1")
  \/ \E i \in 1..(MaxDirs + 1) : TimeoutKills("h1", i)

SpecHang == InitCatalog /\ [][NextHang]_vars /\ WF_vars(Progress)

\* stalled and killed commands with any listing of deployable checkouts on
\* main, safety only
InitTimeout == Init /\ disk[N_svc] = Checkout(B_main, TRUE)

SpecTimeout == InitTimeout /\ [][NextHang]_vars

(***************************************************************************)
(* Startup, types.ts 38-115                                                *)
(***************************************************************************)
\* GITHUB_WEBHOOK_SECRET unset or empty: line 40 makes both ''
NoSecret == ""

\* a missing secret is reported and the process goes on
validateSecretWarnsOnly(configured) == "validated"

\* types.ts 44-47: process.exit(1) when the secret is missing
validateSecret(configured) ==
  IF configured = NoSecret THEN "exited" ELSE "validated"

InitStartup ==
  /\ server = "starting"
  /\ secret \in {NoSecret, "k1"}
  /\ listing = <<N_dot, N_dotdot, N_svc>>
  /\ disk = [n \in DiskNames |-> Checkout(B_main, TRUE)]
  /\ pc = [r \in Slots |-> "idle"]
  /\ req = [r \in Slots |-> NoReq]
  /\ resp = [r \in Slots |-> NoResp]
  /\ branch = [r \in Slots |-> << >>]
  /\ repositories = [r \in Slots |-> << >>]
  /\ scanned = [r \in Slots |-> NoScan]
  /\ matching = [r \in Slots |-> << >>]
  /\ results = [r \in Slots |-> << >>]
  /\ rpc = [r \in Slots |-> << >>]
  /\ pres = [r \in Slots |-> << >>]
  /\ dres = [r \in Slots |-> << >>]
  /\ probe = [r \in Slots |-> << >>]
  /\ stderrs = [r \in Slots |-> << >>]
  /\ calls = [r \in Slots |-> << >>]
  /\ vcall = NoCall

\* types.ts 44-47
Validate ==
  /\ server = "starting"
  /\ server' = validateSecret(secret)
  /\ UNCHANGED <<secret, listing, disk, vcall, pc, req, resp, branch,
                 repositories, scanned, matching, results, rpc, pres, dres,
                 probe, stderrs, calls>>

\* types.ts 50-115: the routes are registered and app.listen is called
Listen ==
  /\ server = "validated"
  /\ server' = "listening"
  /\ UNCHANGED <<secret, listing, disk, vcall, pc, req, resp, branch,
                 repositories, scanned, matching, results, rpc, pres, dres,
                 probe, stderrs, calls>>

NextStartup == Validate \/ Listen \/ Next

SpecStartup == InitStartup /\ [][NextStartup]_vars

(***************************************************************************)
(* Concurrent requests                                                     *)
(***************************************************************************)
\* a request is taken up only when no other handler is running
DispatchOneAtATime(r) ==
  /\ \A q \in Slots \ {r} : pc[q] = "idle"
  /\ Step(r)

\* types.ts 60-62: the route calls the handler for every request as it
\* arrives and does not wait for it; the continuations of the handlers
\* interleave at their awaits
Dispatch(r) == Step(r)

NextConc == \E r \in Slots : Dispatch(r)

SpecConc == InitCatalog /\ [][NextConc]_vars

(***************************************************************************)
(* Direct calls of the signature verifier                                  *)
(***************************************************************************)
VerifyPayloads ==
  {[body |-> [name |-> N_svc, ref |-> <<RefsHeads>> \o b, hasCommit |-> TRUE],
    layout |-> l] : b \in Branches, l \in Layouts}

VerifyFormats == {"missing", "github", "bare", "eq", "short"}

VerifySignatures ==
  {FormatHeader(f, generateSignature(k, p)) :
     f \in VerifyFormats, k \in Secrets, p \in VerifyPayloads}

InitVerify ==
  /\ server = "listening"
  /\ secret = "k1"
  /\ listing = <<N_dot, N_dotdot>>
  /\ disk = [n \in DiskNames |-> Checkout(B_main, TRUE)]
  /\ pc = [r \in Slots |-> "idle"]
  /\ req = [r \in Slots |-> NoReq]
  /\ resp = [r \in Slots |-> NoResp]
  /\ branch = [r \in Slots |-> << >>]
  /\ repositories = [r \in Slots |-> << >>]
  /\ scanned = [r \in Slots |-> NoScan]
  /\ matching = [r \in Slots |-> << >>]
  /\ results = [r \in Slots |-> << >>]
  /\ rpc = [r \in Slots |-> << >>]
  /\ pres = [r \in Slots |-> << >>]
  /\ dres = [r \in Slots |-> << >>]
  /\ probe = [r \in Slots |-> << >>]
  /\ stderrs = [r \in Slots |-> << >>]
  /\ calls = [r \in Slots |-> << >>]
  /\ vcall \in [secret : Secrets, payload : VerifyPayloads,
                signature : VerifySignatures, result : {"none"}]

\* git.ts 285-299 on the drawn arguments
VerifyCall ==
  /\ vcall.result = "none"
  /\ vcall' = [vcall EXCEPT !.result =
                 IF verifySignature(vcall.secret, vcall.payload, vcall.signature)
                 THEN "true" ELSE "false"]
  /\ UNCHANGED <<server, secret, listing, disk, pc, req, resp, branch, repositories, scanned,
                 matching, results, rpc, pres, dres, probe, stderrs, calls>>

SpecVerify == InitVerify /\ [][VerifyCall]_vars

(***************************************************************************)
(* healthCheck, webhook.ts 77-99                                           *)
(***************************************************************************)
HealthReq == [NoReq EXCEPT !.event = "GET /health"]

\* docker.ts 112-120: `docker --version` resolved or was rejected
isDockerAvailable(version) == ~version.rejected

\* docker.ts 125-133: `docker compose version` resolved or was rejected
isDockerComposeAvailable(version) == ~version.rejected

\* deployment.ts 151-156
checkDockerAvailability(dockerVersion, composeVersion) ==
  [docker |-> isDockerAvailable(dockerVersion),
   compose |-> isDockerComposeAvailable(composeVersion)]

\* the service is reported unhealthy without the engine or its compose tool
healthResponseRequiresEngine(dockerStatus, repos) ==
  IF dockerStatus.docker /\ dockerStatus.compose
  THEN [status |-> 200, kind |-> "healthy", docker |-> dockerStatus,
        total |-> Len(repos),
        withDockerCompose |->
          Len(SelectSeq(repos, LAMBDA x : x.hasDockerCompose))]
  ELSE [status |-> 500, kind |-> "unhealthy", docker |-> dockerStatus,
        total |-> 0, withDockerCompose |-> 0]

\* webhook.ts 82-90: the body of the 200 response
healthResponse(dockerStatus, repos) ==
  [status |-> 200, kind |-> "healthy", docker |-> dockerStatus,
   total |-> Len(repos),
   withDockerCompose |-> Len(SelectSeq(repos, LAMBDA x : x.hasDockerCompose))]

VersionOutcomes == {CmdOk, CmdRejected(T_fatal)}

\* webhook.ts 77-99: the two availability probes, the catalog scan, the
\* response; none of the three raises, so the catch of 91-98 is not entered
HealthCheck(r) ==
  /\ server = "listening"
  /\ pc[r] = "idle"
  /\ req' = [req EXCEPT ![r] = HealthReq]
  /\ \E dockerVersion \in VersionOutcomes, composeVersion \in VersionOutcomes,
        lsOk \in BOOLEAN, faults \in SUBSET Readable(listing, disk) :
       LET dockerStatus == checkDockerAvailability(dockerVersion,
                                                   composeVersion)
           repos == getRepositories(listing, disk, lsOk, faults)
       IN /\ repositories' = [repositories EXCEPT ![r] = repos]
          /\ scanned' = [scanned EXCEPT ![r] =
                           [lsOk |-> lsOk,
                            faults |-> IF lsOk THEN faults ELSE {}]]
          /\ resp' = [resp EXCEPT ![r] = healthResponse(dockerStatus, repos)]
  /\ Log(r, "getRepositories", 0)
  /\ pc' = [pc EXCEPT ![r] = "responded"]
  /\ UNCHANGED <<env, branch, matching, results, rpc, pres, dres, probe, stderrs>>

NextHealth == \E r \in Slots : HealthCheck(r) \/ Forget(r)

SpecHealth == Init /\ [][NextHealth]_vars

\* the verifier called directly beside the webhook handler
InitSigned ==
  /\ server = "listening"
  /\ secret = "k1"
  /\ listing = <<N_dot, N_dotdot, N_svc>>
  /\ disk = [n \in DiskNames |-> Checkout(B_main, TRUE)]
  /\ pc = [r \in Slots |-> "idle"]
  /\ req = [r \in Slots |-> NoReq]
  /\ resp = [r \in Slots |-> NoResp]
  /\ branch = [r \in Slots |-> << >>]
  /\ repositories = [r \in Slots |-> << >>]
  /\ scanned = [r \in Slots |-> NoScan]
  /\ matching = [r \in Slots |-> << >>]
  /\ results = [r \in Slots |-> << >>]
  /\ rpc = [r \in Slots |-> << >>]
  /\ pres = [r \in Slots |-> << >>]
  /\ dres = [r \in Slots |-> << >>]
  /\ probe = [r \in Slots |-> << >>]
  /\ stderrs = [r \in Slots |-> << >>]
  /\ calls = [r \in Slots |-> << >>]
  /\ vcall \in [secret : {"k1"}, payload : VerifyPayloads,
                signature : VerifySignatures, result : {"none"}]

NextSigned == VerifyCall \/ Next

SpecSigned == InitSigned /\ [][NextSigned]_vars

(***************************************************************************)
(* Direct calls of the source sync                                         *)
(***************************************************************************)
\* stderr of a git command that exits with an error; none when the child
\* was killed
GitStderrs == {Empty, T_fatal, T_warn, T_ERROR, T_error, T_failed, T_Error}

PullInputs == {CmdOk} \cup {CmdRejected(t) : t \in GitStderrs}

InitPull ==
  /\ server = "listening"
  /\ secret = "k1"
  /\ listing = <<N_dot, N_dotdot>>
  /\ disk = [n \in DiskNames |-> Checkout(B_main, TRUE)]
  /\ pc = [r \in Slots |-> "idle"]
  /\ req = [r \in Slots |-> NoReq]
  /\ resp = [r \in Slots |-> NoResp]
  /\ branch = [r \in Slots |-> << >>]
  /\ repositories = [r \in Slots |-> << >>]
  /\ scanned = [r \in Slots |-> NoScan]
  /\ matching = [r \in Slots |-> << >>]
  /\ results = [r \in Slots |-> << >>]
  /\ rpc = [r \in Slots |-> << >>]
  /\ pres = [r \in Slots |-> << >>]
  /\ dres = [r \in Slots |-> << >>]
  /\ probe = [r \in Slots |-> << >>]
  /\ stderrs = [r \in Slots |-> << >>]
  /\ calls = [r \in Slots |-> << >>]
  /\ vcall \in [config : PullInputs, pull : PullInputs, returned : {FALSE},
                result : {NoOutcome}]

\* git.ts 227-247 on the drawn outcomes of its two commands
PullCall ==
  /\ ~vcall.returned
  /\ vcall' = [vcall EXCEPT !.returned = TRUE,
                            !.result = pullLatestChanges(vcall.config,
                                                         vcall.pull)]
  /\ UNCHANGED <<server, secret, listing, disk, pc, req, resp, branch, repositories, scanned,
                 matching, results, rpc, pres, dres, probe, stderrs, calls>>

SpecPull == InitPull /\ [][PullCall]_vars

(***************************************************************************)
(* Direct calls of the string comparison                                   *)
(***************************************************************************)
MaxCompared == 3
ComparedChars == {"0", "f"}
ComparedStrings == UNION {[1..n -> ComparedChars] : n \in 0..MaxCompared}

InitCompare ==
  /\ server = "listening"
  /\ secret = "k1"
  /\ listing = <<N_dot, N_dotdot>>
  /\ disk = [n \in DiskNames |-> Checkout(B_main, TRUE)]
  /\ pc = [r \in Slots |-> "idle"]
  /\ req = [r \in Slots |-> NoReq]
  /\ resp = [r \in Slots |-> NoResp]
  /\ branch = [r \in Slots |-> << >>]
  /\ repositories = [r \in Slots |-> << >>]
  /\ scanned = [r \in Slots |-> NoScan]
  /\ matching = [r \in Slots |-> << >>]
  /\ results = [r \in Slots |-> << >>]
  /\ rpc = [r \in Slots |-> << >>]
  /\ pres = [r \in Slots |-> << >>]
  /\ dres = [r \in Slots |-> << >>]
  /\ probe = [r \in Slots |-> << >>]
  /\ stderrs = [r \in Slots |-> << >>]
  /\ calls = [r \in Slots |-> << >>]
  /\ vcall \in [a : ComparedStrings, b : ComparedStrings, returned : {FALSE},
                result : {FALSE}, steps : {<< >>}]

\* git.ts 313-324 on the drawn strings
CompareCall ==
  /\ ~vcall.returned
  /\ vcall' = [vcall EXCEPT !.returned = TRUE,
                            !.result = timingSafeEqual(vcall.a, vcall.b),
                            !.steps = timingSafeEqualSteps(vcall.a, vcall.b)]
  /\ UNCHANGED <<server, secret, listing, disk, pc, req, resp, branch, repositories, scanned,
                 matching, results, rpc, pres, dres, probe, stderrs, calls>>

SpecCompare == InitCompare /\ [][CompareCall]_vars

(***************************************************************************)
(* Direct calls of the diagnostic operations                               *)
(***************************************************************************)
DumpOutcomes == {ProbeOk(T_Up), ProbeRejected(T_fatal)}
NoDiag == Returns(NoMsg)

DiagCalls ==
  {[fn |-> f, probes |-> <<p>>, returned |-> FALSE, result |-> NoDiag] :
     f \in {"getContainerLogs", "getContainerStatus"}, p \in DiagOutcomes}
  \cup
  {[fn |-> "getContainerDebugInfo", probes |-> ps, returned |-> FALSE,
    result |-> NoDiag] : ps \in [1..DebugCommands -> DumpOutcomes]}

InitDiag ==
  /\ server = "listening"
  /\ secret = "k1"
  /\ listing = <<N_dot, N_dotdot, N_svc>>
  /\ disk = [n \in DiskNames |-> Checkout(B_main, TRUE)]
  /\ pc = [r \in Slots |-> "idle"]
  /\ req = [r \in Slots |-> NoReq]
  /\ resp = [r \in Slots |-> NoResp]
  /\ branch = [r \in Slots |-> << >>]
  /\ repositories = [r \in Slots |-> << >>]
  /\ scanned = [r \in Slots |-> NoScan]
  /\ matching = [r \in Slots |-> << >>]
  /\ results = [r \in Slots |-> << >>]
  /\ rpc = [r \in Slots |-> << >>]
  /\ pres = [r \in Slots |-> << >>]
  /\ dres = [r \in Slots |-> << >>]
  /\ probe = [r \in Slots |-> << >>]
  /\ stderrs = [r \in Slots |-> << >>]
  /\ calls = [r \in Slots |-> << >>]
  /\ vcall \in DiagCalls

\* docker.ts 138-195 on the drawn outcomes of the probes
DiagCall ==
  /\ ~vcall.returned
  /\ vcall' = [vcall EXCEPT
                 !.returned = TRUE,
                 !.result = CASE vcall.fn = "getContainerLogs" ->
                                   getContainerLogs(vcall.probes[1])
                              [] vcall.fn = "getContainerStatus" ->
                                   getContainerStatus(vcall.probes[1])
                              [] OTHER ->
                                   getContainerDebugInfo(vcall.probes)]
  /\ UNCHANGED <<server, secret, listing, disk, pc, req, resp, branch, repositories, scanned,
                 matching, results, rpc, pres, dres, probe, stderrs, calls>>

NextDiag == DiagCall \/ Next

SpecDiag == InitDiag /\ [][NextDiag]_vars

(***************************************************************************)
(* Properties                                                              *)
(***************************************************************************)
PushOf(r) == JsonParse(req[r].raw)
HasRef(r) == PushOf(r).ref # NoRef

\* the three conditions of the data model, read off a catalog entry
Eligible(r, e) ==
  /\ e.name = PushOf(r).name
  /\ e.currentBranch = extractBranchFromRef(PushOf(r).ref)
  /\ e.hasDockerCompose = TRUE

\* the steps invoked for match i of slot r
OpsOf(r, i) == {calls[r][k].op : k \in {n \in 1..Len(calls[r]) : calls[r][n].i = i}}
CountOf(r, op, i) ==
  Cardinality({k \in 1..Len(calls[r]) : calls[r][k] = Call(op, i)})

Returned(r) == pc[r] \in {"return", "responded"} /\ resp[r].status \in {0, 200}
                 /\ (pc[r] = "responded" => resp[r].kind = "Webhook processed successfully")

PullFailedPrefix == <<"Failed to pull changes: ">>
CaughtPrefix == <<"Deployment error: ">>
NotRunningPrefix == <<"Container failed to start properly: ">>

\* C1: sync and redeploy steps are invoked only on catalog entries whose
\* name equals the pushed name, whose branch equals the branch derived from
\* the ref and which have a workload descriptor; entries failing one of the
\* three get no step and no result.
C1_OnlyEligibleEntriesActedUpon ==
  \A r \in Slots :
    /\ \A k \in 1..Len(calls[r]) :
         calls[r][k].i >= 1 =>
           /\ calls[r][k].i <= Len(matching[r])
           /\ Eligible(r, matching[r][calls[r][k].i])
           /\ \E j \in 1..Len(repositories[r]) :
                repositories[r][j] = matching[r][calls[r][k].i]
    /\ \A j \in 1..Len(repositories[r]) :
         ~Eligible(r, repositories[r][j]) =>
           \A k \in 1..Len(calls[r]) :
             calls[r][k].i >= 1 =>
               matching[r][calls[r][k].i].path # repositories[r][j].path
    /\ HasRef(r) =>
         /\ Len(results[r]) <=
              Cardinality({j \in 1..Len(repositories[r]) :
                             Eligible(r, repositories[r][j])})
         /\ \A k \in 1..Len(results[r]) :
              /\ k <= Len(matching[r])
              /\ Eligible(r, matching[r][k])
              /\ results[r][k].repository = matching[r][k].name

C1_Witness ==
  /\ pc["h1"] = "responded"
  /\ Len(repositories["h1"]) = 2
  /\ \E j \in 1..2 : ~Eligible("h1", repositories["h1"][j])
  /\ Len(results["h1"]) = 1
  /\ results["h1"][1].success
  /\ "up" \in OpsOf("h1", 1)

\* C2: a matched repository whose sync fails gets exactly one result, with
\* success = FALSE and the sync failure message, and no workload step.
C2_SyncFailureIsTerminal ==
  \A r \in Slots :
    \A i \in 1..Len(pres[r]) :
      pres[r][i].message.prefix = PullFailedPrefix =>
        /\ ~pres[r][i].success
        /\ rpc[r][i] = "done"
        /\ OpsOf(r, i) = {"pullLatestChanges"}
        /\ CountOf(r, "pullLatestChanges", i) = 1
        /\ i <= Len(results[r])
        /\ Len(results[r]) <= Len(matching[r])
        /\ results[r][i].repository = matching[r][i].name
        /\ results[r][i].success = FALSE
        /\ results[r][i].message.prefix = PullFailedPrefix \o pres[r][i].message.prefix
        /\ results[r][i].message.text = pres[r][i].message.text

C2_Witness ==
  /\ pc["h1"] = "responded"
  /\ Len(matching["h1"]) = 1
  /\ pres["h1"][1] = pullFailed(T_fatal)
  /\ Len(results["h1"]) = 1
  /\ ~results["h1"][1].success

\* C3: a push with N matches returns N results, one per match in order;
\* every match is synced, and redeployed when its sync succeeded, whatever
\* happened to the matches before it; an exception in one repository's
\* processing becomes that repository's failed result.
C3_OneResultPerMatch ==
  \A r \in Slots :
    (Returned(r) /\ HasRef(r)) =>
      /\ Len(results[r]) = Len(matching[r])
      /\ \A i \in 1..Len(matching[r]) :
           /\ results[r][i].repository = matching[r][i].name
           /\ results[r][i].branch = branch[r]
           /\ "pullLatestChanges" \in OpsOf(r, i)
           /\ (pres[r][i].success /\ results[r][i].message.prefix # CaughtPrefix)
                => "down" \in OpsOf(r, i)
           /\ results[r][i].message.prefix = CaughtPrefix
                => results[r][i].success = FALSE

C3_Witness ==
  /\ pc["h1"] = "return"
  /\ Len(matching["h1"]) = 2
  /\ Len(results["h1"]) = 2
  /\ results["h1"][1].message.prefix = CaughtPrefix
  /\ results["h1"][2].success
  /\ "ps" \in OpsOf("h1", 2)

\* C4: when no catalog entry is eligible for the push, the returned list is
\* empty and no sync and no redeploy step is invoked.
C4_NoMatchNoAction ==
  \A r \in Slots :
    ( /\ pc[r] \in {"loop", "return", "threw", "responded"}
      /\ HasRef(r)
      /\ \A j \in 1..Len(repositories[r]) : ~Eligible(r, repositories[r][j]) )
    =>
      /\ pc[r] # "loop"
      /\ pc[r] # "threw"
      /\ results[r] = << >>
      /\ \A k \in 1..Len(calls[r]) : calls[r][k] = Call("getRepositories", 0)

C4_Witness ==
  /\ pc["h1"] = "responded"
  /\ resp["h1"] = Resp(200, "Webhook processed successfully", 0)
  /\ \E j \in 1..Len(repositories["h1"]) :
       /\ repositories["h1"][j].name = PushOf("h1").name
       /\ repositories["h1"][j].currentBranch = branch["h1"]
       /\ ~repositories["h1"][j].hasDockerCompose
  /\ results["h1"] = << >>

\* the status probe shows a container that exited, is dead or restarts
ShowsUnhealthy(statusOutput) ==
  \E w \in {T_Exited, T_Dead, T_Restarting} : Includes(statusOutput, w)

\* C5: when the status probe after a clean teardown, cleanup, build and
\* start shows an exited, dead or restarting container, redeploy returns
\* success = FALSE with a message carrying the status text, and so does the
\* DeploymentResult.
C5_UnhealthyIsFailure ==
  \A r \in Slots :
    \A i \in 1..Len(probe[r]) :
      ShowsUnhealthy(probe[r][i]) =>
        /\ {"down", "removeOrphans", "build", "up", "ps"} \subseteq OpsOf(r, i)
        /\ dres[r][i].success = FALSE
        /\ dres[r][i].message = Msg(NotRunningPrefix, probe[r][i])
        /\ rpc[r][i] = "done" =>
             /\ i <= Len(results[r])
             /\ results[r][i].success = FALSE
             /\ results[r][i].message = Msg(NotRunningPrefix, probe[r][i])

C5_Witness ==
  /\ pc["h1"] = "responded"
  /\ Len(results["h1"]) = 1
  /\ Len(probe["h1"]) = 1
  /\ probe["h1"][1] = T_Restarting
  /\ ~results["h1"][1].success
  /\ results["h1"][1].message.text = T_Restarting

Rejected(r) ==
  /\ pc[r] # "idle"
  /\ ~verifySignature(secret, signedPayload(req[r].raw), Header(req[r]))

\* C6: a request whose signature check fails is answered 401 and nothing
\* else happens for it: no scan, no sync, no redeploy, whatever the event.
C6_RejectedIsInert ==
  \A r \in Slots :
    (Rejected(r) \/ resp[r].status = 401) =>
      /\ Rejected(r)
      /\ pc[r] = "responded"
      /\ resp[r] = Resp(401, "Invalid signature", 0)
      /\ calls[r] = << >>
      /\ repositories[r] = << >>
      /\ results[r] = << >>

C6_Witness ==
  /\ pc["h1"] = "responded"
  /\ resp["h1"].status = 401
  /\ req["h1"].event = "push"
  /\ req["h1"].sigFmt = "bare"
  /\ req["h1"].sigKey # secret
  /\ PushOf("h1").hasCommit

\* C7: the HMAC is computed over the raw bytes the sender signed, so a
\* request signed over its raw bytes with the shared secret is not turned
\* away, whatever its layout.
C7_HmacOverRawBytes ==
  \A r \in Slots :
    pc[r] # "idle" =>
      /\ signedPayload(req[r].raw) = req[r].raw
      /\ (req[r].sigKey = secret /\ req[r].sigFmt = "bare")
           => resp[r].status # 401

\* C8: verify returns true exactly when the provided signature equals the
\* hex HMAC-SHA256 of the payload under the secret.
C8_VerifyIffHmacEqual ==
  vcall.result # "none" =>
    ( vcall.result = "true"
      <=> vcall.signature = generateSignature(vcall.secret, vcall.payload) )

\* C9: the matches of one call are processed one after another: at most one
\* is in flight, none starts before all earlier ones are done, and the
\* steps of the call are logged match by match.
C9_OneAtATime ==
  \A r \in Slots :
    /\ Cardinality({i \in 1..Len(rpc[r]) : rpc[r][i] \in InFlight}) <= 1
    /\ \A i, j \in 1..Len(rpc[r]) :
         (i < j /\ rpc[r][j] # "pending") => rpc[r][i] = "done"
    /\ \A k \in 1..(Len(calls[r]) - 1) : calls[r][k].i <= calls[r][k + 1].i

C9_Witness ==
  /\ pc["h1"] = "loop"
  /\ Len(rpc["h1"]) = 2
  /\ rpc["h1"][1] = "done"
  /\ rpc["h1"][2] = "build"
  /\ ~results["h1"][1].success

IsDeploymentResult(x) ==
  /\ DOMAIN x = {"repository", "branch", "success", "message"}
  /\ x.success \in BOOLEAN

\* C10: processPushEvent never rejects: once called it ends by returning a
\* list of DeploymentResult, and a 500 response only arises before the call.
C10_ProcessPushNeverThrows ==
  \A r \in Slots :
    /\ pc[r] # "threw"
    /\ resp[r].status = 500 => (calls[r] = << >> /\ ~PushOf(r).hasCommit)
    /\ pc[r] = "return" =>
         \A k \in 1..Len(results[r]) : IsDeploymentResult(results[r][k])

C10_Witness ==
  /\ pc["h1"] = "return"
  /\ Len(results["h1"]) = 2
  /\ results["h1"][1].message.prefix = CaughtPrefix
  /\ results["h1"][2].message.prefix = <<"Deployment failed: ">>

\* the catalog entries of slot r that are eligible for its push
EligibleEntries(r) ==
  {j \in 1..Len(repositories[r]) : Eligible(r, repositories[r][j])}

\* C11: a push with exactly one eligible catalog entry returns exactly one
\* result, carrying the entry's name and the pushed branch; it is a success
\* exactly when the sync succeeded and the redeploy after it succeeded, and
\* after a successful sync its message is the redeploy outcome's message.
C11_SingleMatchResult ==
  \A r \in Slots :
    (Returned(r) /\ HasRef(r) /\ Cardinality(EligibleEntries(r)) = 1) =>
      LET e == repositories[r][CHOOSE j \in EligibleEntries(r) : TRUE] IN
        /\ Len(results[r]) = 1
        /\ results[r][1].repository = e.name
        /\ results[r][1].repository = PushOf(r).name
        /\ results[r][1].branch = extractBranchFromRef(PushOf(r).ref)
        /\ results[r][1].success <=> (pres[r][1].success /\ dres[r][1].success)
        /\ pres[r][1].success =>
             /\ "down" \in OpsOf(r, 1)
             /\ results[r][1].message = dres[r][1].message

C11_Witness ==
  /\ pc["h1"] = "responded"
  /\ Cardinality(EligibleEntries("h1")) = 1
  /\ Len(repositories["h1"]) = 2
  /\ results["h1"] = <<Result(N_svc, B_main, TRUE, deployedOutcome(N_svc).message)>>
  /\ pres["h1"][1].success
  /\ dres["h1"][1].success

\* match i of slot r has been processed and its result is a failure
FailedResult(r, i) ==
  /\ i <= Len(rpc[r])
  /\ rpc[r][i] = "done"
  /\ i <= Len(results[r])
  /\ ~results[r][i].success

\* C12: on every failure path of a matched repository the multi-probe dump
\* (getContainerDebugInfo, docker.ts 153-180) has been invoked for that
\* repository by the time its result is returned.
C12_DiagnoseOnEveryFailure ==
  \A r \in Slots :
    \A i \in 1..Len(rpc[r]) :
      (HasRef(r) /\ FailedResult(r, i)) =>
        "getContainerDebugInfo" \in OpsOf(r, i)

\* the five steps of a redeploy call, in the order of docker.ts 16-79
RedeploySteps == <<"down", "removeOrphans", "build", "up", "ps">>

\* the redeploy steps logged for match i of slot r, in log order
StepLog(r, i) ==
  SelectSeq(calls[r],
            LAMBDA c : c.i = i /\ \E k \in 1..Len(RedeploySteps) :
                                    c.op = RedeploySteps[k])

\* the positions of the orchestrator after the workload controller returned
AfterRedeploy == {"deployed", "getContainerLogs", "getContainerStatus", "done"}

\* C13: the steps of a redeploy call are logged as a prefix of Teardown,
\* Orphan cleanup, Build, Start, Verify, each at most once; no step runs
\* after the call returned; Start is reached only with a build stderr that
\* was not classified as a failure, Verify only with a start stderr that was
\* not, and success = TRUE is returned only with a status probe that passed.
C13_LinearStepOrder ==
  \A r \in Slots :
    \A i \in 1..Len(rpc[r]) :
      /\ Len(StepLog(r, i)) <= Len(RedeploySteps)
      /\ \A k \in 1..Len(StepLog(r, i)) : StepLog(r, i)[k].op = RedeploySteps[k]
      /\ dres[r][i] # NoOutcome => rpc[r][i] \in AfterRedeploy
      /\ rpc[r][i] \in {"up", "ps"} =>
            /\ stderrs[r][i].build # NotCaptured
            /\ ~hasFailureMarker(stderrs[r][i].build)
      /\ rpc[r][i] = "ps" =>
            /\ stderrs[r][i].up # NotCaptured
            /\ ~hasFailureMarker(stderrs[r][i].up)
      /\ rpc[r][i] \notin {"up", "ps"} =>
            /\ stderrs[r][i].build = NotCaptured
            /\ stderrs[r][i].up = NotCaptured
      /\ dres[r][i].success =>
            /\ Len(StepLog(r, i)) = Len(RedeploySteps)
            /\ probe[r][i] \in StatusSamples
            /\ ~notRunning(probe[r][i])

C13_Witness ==
  /\ pc["h1"] = "loop"
  /\ Len(rpc["h1"]) = 1
  /\ rpc["h1"][1] = "ps"
  /\ stderrs["h1"][1] = [NoStderrs EXCEPT !.build = T_warn, !.up = Empty]
  /\ Len(StepLog("h1", 1)) = 4

\* letter case
UpperCase == <<"A","B","C","D","E","F","G","H","I","J","K","L","M",
               "N","O","P","Q","R","S","T","U","V","W","X","Y","Z">>
LowerCase == <<"a","b","c","d","e","f","g","h","i","j","k","l","m",
               "n","o","p","q","r","s","t","u","v","w","x","y","z">>
ToLowerChar(c) ==
  IF \E k \in 1..Len(UpperCase) : UpperCase[k] = c
  THEN LowerCase[CHOOSE k \in 1..Len(UpperCase) : UpperCase[k] = c]
  ELSE c
ToLower(text) == [k \in 1..Len(text) |-> ToLowerChar(text[k])]

\* the failure markers "error" and "fail" in any letter case
T_fail == <<"f","a","i","l">>
HasMarkerAnyCase(text) ==
  \/ Includes(ToLower(text), T_error)
  \/ Includes(ToLower(text), T_fail)

\* C15: a build or start whose stderr carries "error" or "fail" in any
\* letter case is classified as failed: the call never goes on to the next
\* step with such a stream.
C15_MarkerInAnyCaseFails ==
  \A r \in Slots :
    \A i \in 1..Len(stderrs[r]) :
      /\ ~HasMarkerAnyCase(stderrs[r][i].build)
      /\ ~HasMarkerAnyCase(stderrs[r][i].up)

BuildErrorPrefix == <<"Docker Compose build error: ">>
UpErrorPrefix == <<"Docker Compose error: ">>
RaisedPrefix == <<"Deployment failed: ">>

\* C16: a redeploy returns success = FALSE only with a failure marker in
\* the stderr of build or start, or after a step raised, or with a status
\* probe that shows an unhealthy container; stderr text without a marker
\* never fails the call.
C16_FailureOnlyForCause ==
  \A r \in Slots :
    \A i \in 1..Len(dres[r]) :
      (dres[r][i] # NoOutcome /\ ~dres[r][i].success) =>
        \/ /\ dres[r][i].message.prefix \in {BuildErrorPrefix, UpErrorPrefix}
           /\ HasMarkerAnyCase(dres[r][i].message.text)
        \/ dres[r][i].message.prefix = RaisedPrefix
        \/ /\ dres[r][i].message.prefix = NotRunningPrefix
           /\ ShowsUnhealthy(probe[r][i])

C16_Witness ==
  /\ pc["h1"] = "loop"
  /\ Len(rpc["h1"]) = 1
  /\ rpc["h1"][1] = "ps"
  /\ stderrs["h1"][1] = [NoStderrs EXCEPT !.build = T_warn, !.up = T_warn]
  /\ dres["h1"][1] = NoOutcome

\* a ref without its leading "refs/heads/", if it has one
StripLeadingPrefix(ref) ==
  IF ref # << >> /\ Head(ref) = RefsHeads THEN Tail(ref) ELSE ref

\* C18: the pushed branch is the ref with only a leading "refs/heads/"
\* removed: what follows the prefix is kept as it is, and an occurrence of
\* "refs/heads/" elsewhere in the ref stays.
C18_OnlyLeadingPrefixStripped ==
  \A r \in Slots :
    (HasRef(r) /\ pc[r] \in {"getRepositories", "loop", "return"}) =>
      branch[r] = StripLeadingPrefix(PushOf(r).ref)

\* the records a scan owes: one per listing line that is handed to
\* getRepositoryInfo, is a checkout and was read without a rejected
\* command, in listing order
OwedLines(r) ==
  SelectSeq([j \in 1..Len(listing) |-> j],
            LAMBDA j : j \in Readable(listing, disk) /\ j \notin scanned[r].faults)

\* C19: a rejected command while reading one directory costs only that
\* directory's record: the scan returns, in listing order, a record for
\* every other checkout below the root; directories that are not checkouts
\* are passed over.
C19_ScanFailsSoftPerEntry ==
  \A r \in Slots :
    (scanned[r] # NoScan /\ scanned[r].lsOk) =>
      /\ Len(repositories[r]) = Len(OwedLines(r))
      /\ \A k \in 1..Len(OwedLines(r)) :
           /\ repositories[r][k].name = listing[OwedLines(r)[k]]
           /\ repositories[r][k].currentBranch = disk[listing[OwedLines(r)[k]]].branch

C19_Witness ==
  /\ listing = <<N_dot, N_dotdot, N_svc, N_api>>
  /\ disk[N_svc].isGit
  /\ scanned["h1"] = [lsOk |-> TRUE, faults |-> {3}]
  /\ Len(repositories["h1"]) = 1
  /\ repositories["h1"][1].name = N_api

\* C20: the records of every scan, for a push and for a status query, are
\* read off the apps directory as it is at that call, and the matches of a
\* push are selected among them; a handler that is not running holds no
\* records.
C20_CatalogReadFresh ==
  \A r \in Slots :
    /\ scanned[r] # NoScan =>
         /\ \A k \in 1..Len(repositories[r]) :
              /\ \E j \in 1..Len(listing) : listing[j] = repositories[r][k].name
              /\ disk[repositories[r][k].name].isGit
              /\ repositories[r][k].currentBranch =
                   disk[repositories[r][k].name].branch
              /\ repositories[r][k].hasDockerCompose =
                   disk[repositories[r][k].name].compose
         /\ \A k \in 1..Len(matching[r]) :
              /\ matching[r][k].currentBranch = disk[matching[r][k].name].branch
              /\ disk[matching[r][k].name].compose
         /\ (scanned[r].lsOk /\ scanned[r].faults = {}) =>
              Len(repositories[r]) = Cardinality(Readable(listing, disk))
    /\ pc[r] = "idle" =>
         /\ repositories[r] = << >>
         /\ matching[r] = << >>
         /\ scanned[r] = NoScan

\* the directory differs from the one the operator started from: the
\* checkout was switched to dev and lost its descriptor, a status query
\* reports it so
C20_Witness ==
  /\ pc["h1"] = "responded"
  /\ req["h1"] = StatusReq
  /\ listing = <<N_dot, N_dotdot, N_svc>>
  /\ disk[N_svc] = Checkout(B_dev, FALSE)
  /\ repositories["h1"] =
       <<[name |-> N_svc, path |-> N_svc, currentBranch |-> B_dev,
          hasDockerCompose |-> FALSE]>>

\* C14: every external command started for a push has a timeout, so a push
\* handed to processPushEvent is always answered with a result list, even
\* when a command never exits.
C14_HungToolStillReturns ==
  (pc["h1"] = "processPushEvent") ~> (pc["h1"] = "return")

\* handler r is between the sync and the result of a match at `path`
WorkingOn(r, path) ==
  /\ pc[r] = "loop"
  /\ \E i \in 1..Len(rpc[r]) :
       rpc[r][i] \in InFlight /\ matching[r][i].path = path

\* C17: nothing guards a repository path: a handler can always take its
\* next step whatever the other handler is doing, and it can start the
\* sync of its next match while the other handler is working on the same
\* path.
C17_NoReentrancyGuard ==
  \A r \in Slots :
    /\ ENABLED Dispatch(r)
    /\ \A q \in Slots \ {r} :
         \A i \in 1..Len(rpc[r]) :
           ( /\ pc[r] = "loop"
             /\ rpc[r][i] = "pending"
             /\ loopAwaits(rpc[r], i)
             /\ WorkingOn(q, matching[r][i].path) )
           => ENABLED LoopStart(r)

\* both handlers are working on the same path at the same time
C17_Witness ==
  /\ PushOf("h1") = PushOf("h2")
  /\ Len(matching["h1"]) = 1
  /\ Len(matching["h2"]) = 1
  /\ matching["h1"][1].path = matching["h2"][1].path
  /\ rpc["h1"][1] = "build"
  /\ rpc["h2"][1] = "pullLatestChanges"
  /\ WorkingOn("h1", N_svc)
  /\ WorkingOn("h2", N_svc)

\* the records of a list, as a set
RecordSet(list) == {list[k] : k \in 1..Len(list)}

BothScanned == scanned["h1"] # NoScan /\ scanned["h2"] # NoScan

C22_HiddenAndOwnDirectoryExcluded ==
  \A r \in Slots :
    /\ \A k \in 1..Len(repositories[r]) :
         /\ ~StartsWithDot(repositories[r][k].name)
         /\ repositories[r][k].name # N_self
         /\ repositories[r][k].path = repositories[r][k].name
         /\ \E j \in 1..Len(listing) : listing[j] = repositories[r][k].name
    /\ (pc[r] # "idle" /\ PushOf(r).name = N_self) =>
         /\ matching[r] = << >>
         /\ \A k \in 1..Len(calls[r]) : calls[r][k] = Call("getRepositories", 0)
         /\ \A k \in 1..Len(results[r]) : results[r][k].repository # N_self

\* the agent's own directory is a deployable checkout on the pushed branch
\* and is listed, next to another checkout
C22_Witness ==
  /\ pc["h1"] = "responded"
  /\ PushOf("h1").name = N_self
  /\ PushOf("h1").ref = <<RefsHeads>> \o B_main
  /\ listing = <<N_dot, N_dotdot, N_self, N_svc>>
  /\ disk[N_self] = Checkout(B_main, TRUE)
  /\ scanned["h1"] = [lsOk |-> TRUE, faults |-> {}]
  /\ Len(repositories["h1"]) = 1
  /\ resp["h1"] = Resp(200, "Webhook processed successfully", 0)

\* the positions of a handler from the call of processPushEvent to its
\* return
InOrchestrator == {"processPushEvent", "getRepositories", "loop", "return",
                   "threw"}

\* C23: an authenticated request whose event type is not push is answered
\* 200 "Event ignored" and nothing else happens for it: processPushEvent is
\* not called, no scan, no sync, no redeploy step; whatever is handed to
\* the orchestrator, and every collaborator call, belongs to a push.
C23_OnlyPushReachesOrchestrator ==
  \A r \in Slots :
    /\ (pc[r] # "idle" /\ req[r].event # "push" /\ ~Rejected(r)) =>
         /\ pc[r] = "responded"
         /\ resp[r] = Resp(200, "Event ignored", 0)
         /\ calls[r] = << >>
         /\ scanned[r] = NoScan
         /\ repositories[r] = << >>
         /\ matching[r] = << >>
         /\ results[r] = << >>
    /\ (pc[r] \in InOrchestrator \/ calls[r] # << >>) => req[r].event = "push"
    /\ resp[r].kind = "Event ignored" => req[r].event # "push"

C23_Witness ==
  /\ pc["h1"] = "responded"
  /\ req["h1"].event = "ping"
  /\ req["h1"].sigKey = secret
  /\ req["h1"].sigFmt = "bare"
  /\ req["h1"].raw.layout = "compact"
  /\ PushOf("h1").hasCommit
  /\ resp["h1"] = Resp(200, "Event ignored", 0)
  /\ \E j \in 1..Len(listing) :
       /\ listing[j] = PushOf("h1").name
       /\ disk[listing[j]] = Checkout(B_main, TRUE)

\* a header value that is a hex digest: HexLen characters, all hex digits
IsHexDigest(signature) ==
  /\ Len(signature) = HexLen
  /\ \A i \in 1..Len(signature) : signature[i].k \in Secrets

\* C24: verify returns a boolean for every signature, and it returns false
\* when the signature is missing, when it is not a hex digest of the right
\* length, and when it differs from the HMAC of the payload.
C24_VerifyFalseOnBadSignature ==
  vcall.result # "none" =>
    /\ vcall.result \in {"true", "false"}
    /\ ( \/ vcall.signature = << >>
         \/ ~IsHexDigest(vcall.signature)
         \/ vcall.signature # generateSignature(vcall.secret, vcall.payload) )
       => vcall.result = "false"

\* C25: pullLatestChanges returns for every outcome of its commands; a
\* rejected registration of the path or a rejected pull gives success =
\* FALSE with a message that contains the stderr text of the rejected
\* command unchanged; success = TRUE is returned only when both commands
\* exited without error.
C25_SyncNeverThrows ==
  vcall.returned =>
    LET failed == IF vcall.config.rejected THEN vcall.config ELSE vcall.pull IN
      /\ vcall.result.success \in BOOLEAN
      /\ vcall.result.success <=>
           (~vcall.config.rejected /\ ~vcall.pull.rejected)
      /\ ~vcall.result.success =>
           /\ vcall.result.message.prefix = PullFailedPrefix
           /\ Includes(vcall.result.message.text, failed.stderr)
           /\ failed.stderr # Empty => vcall.result.message.text = failed.stderr

\* the registration of the path is rejected, the pull would have worked
C25_Witness ==
  /\ vcall.returned
  /\ vcall.config = CmdRejected(T_fatal)
  /\ vcall.pull = CmdOk
  /\ vcall.result = pullFailed(T_fatal)

\* C26: with the secret missing from the configuration the process exits
\* at its startup validation and never listens: the server listens only
\* with a secret, and every request that is handled is handled by a
\* listening server that has one.
C26_NoSecretNoService ==
  /\ secret = NoSecret => server \in {"starting", "exited"}
  /\ server = "listening" => secret # NoSecret
  /\ \A r \in Slots :
       (pc[r] # "idle" \/ calls[r] # << >>) =>
         (server = "listening" /\ secret # NoSecret)

C26_Witness ==
  /\ secret = NoSecret
  /\ server = "exited"
  /\ \A r \in Slots : pc[r] = "idle"

\* C27: the records of a scan have pairwise distinct paths, and no path is
\* synced twice within one call of processPushEvent.
C27_DistinctPaths ==
  \A r \in Slots :
    /\ \A j, k \in 1..Len(repositories[r]) :
         j # k => repositories[r][j].path # repositories[r][k].path
    /\ \A i, j \in 1..Len(matching[r]) :
         ( /\ i # j
           /\ "pullLatestChanges" \in OpsOf(r, i)
           /\ "pullLatestChanges" \in OpsOf(r, j) )
         => matching[r][i].path # matching[r][j].path

\* the steps of deployRepository and of the workload controller
AllSteps == InFlight \ {"deployed"}

\* C28: within one call of processPushEvent every step is started at most
\* once for each match: the sync once, and each of teardown, orphan
\* cleanup, build, start and verify once, also when the step was rejected
\* or killed at its timeout; a match that is done stays done.
C28_NoRetry ==
  \A r \in Slots :
    \A i \in 1..Len(rpc[r]) :
      /\ \A op \in AllSteps : CountOf(r, op, i) <= 1
      /\ rpc[r][i] = "done" => i <= Len(results[r])
      /\ Len(results[r]) <= Len(rpc[r])

\* the build of the first match was killed at its timeout, the sync of the
\* second match was rejected; the call returns
C28_Witness ==
  /\ pc["h1"] = "return"
  /\ Len(matching["h1"]) = 2
  /\ Len(results["h1"]) = 2
  /\ dres["h1"][1] = dockerCatchOutcome(T_CommandFailed)
  /\ CountOf("h1", "build", 1) = 1
  /\ "up" \notin OpsOf("h1", 1)
  /\ pres["h1"][2] = pullFailed(T_fatal)
  /\ CountOf("h1", "pullLatestChanges", 2) = 1

\* the positions of the workload controller from the cleanup to the build
UpToBuild == {"removeOrphans", "sync", "contextCheck", "build"}

\* C29: a teardown that exits normally never fails the redeploy, whatever
\* it wrote to stderr and in particular with the notice that there was
\* nothing to stop: the call goes on with the cleanup towards the build
\* and has no outcome yet, and no failed outcome carries the notice.
C29_NothingToStopIsSuccess ==
  \A r \in Slots :
    \A i \in 1..Len(rpc[r]) :
      /\ stderrs[r][i].down # NotCaptured =>
           /\ rpc[r][i] \in UpToBuild
           /\ dres[r][i] = NoOutcome
           /\ CountOf(r, "down", i) = 1
      /\ (rpc[r][i] \in UpToBuild /\ pc[r] = "loop") =>
           stderrs[r][i].down \in DownStderrs
      /\ ~Includes(dres[r][i].message.text, T_NoContainers)

\* the teardown found nothing to stop and the build is next
C29_Witness ==
  /\ pc["h1"] = "loop"
  /\ Len(rpc["h1"]) = 1
  /\ rpc["h1"][1] = "build"
  /\ stderrs["h1"][1].down = T_NoContainers
  /\ dres["h1"][1] = NoOutcome

\* C30: however the orphan cleanup settles, rejected by an error exit or
\* killed at its timeout, the call goes on towards the build with no
\* outcome yet; the cleanup is started once, and no failed outcome carries
\* the error of a rejected cleanup.
C30_CleanupFailureSwallowed ==
  \A r \in Slots :
    \A i \in 1..Len(rpc[r]) :
      /\ stderrs[r][i].cleanup # NotCaptured =>
           /\ rpc[r][i] \in {"sync", "contextCheck", "build", "hung"}
           /\ rpc[r][i] = "hung" => LastOp(r) \in {"sync", "contextCheck", "build"}
           /\ dres[r][i] = NoOutcome
           /\ CountOf(r, "removeOrphans", i) = 1
      /\ (rpc[r][i] \in {"sync", "contextCheck", "build"} /\ pc[r] = "loop") =>
           stderrs[r][i].cleanup \in {CleanupFulfilled, CleanupRejected}
      /\ dres[r][i].message.text # T_orphan

\* the cleanup was rejected and the build is next
C30_Witness ==
  /\ pc["h1"] = "loop"
  /\ Len(rpc["h1"]) = 1
  /\ rpc["h1"][1] = "build"
  /\ stderrs["h1"][1].cleanup = CleanupRejected
  /\ stderrs["h1"][1].down = T_warn
  /\ dres["h1"][1] = NoOutcome

\* one diagnostic probe of the direct call failed, the others did not
OnlyProbeFails(k) ==
  \A j \in 1..Len(vcall.probes) : vcall.probes[j].rejected <=> j = k

\* C31: the diagnostic operations never throw: a failing or timed-out probe
\* is captured as error text in the returned string; in the multi-probe dump
\* every probe runs and gets its section whichever probes failed; and a
\* match whose diagnostics ran keeps the success value and the message of
\* its redeploy.
C31_DiagnosticsNeverThrow ==
  /\ vcall.returned =>
       /\ ~vcall.result.threw
       /\ vcall.fn = "getContainerLogs" =>
            vcall.result.value =
              IF vcall.probes[1].rejected
              THEN Msg(<<"Error getting logs: ">>,
                       T_CommandFailed \o vcall.probes[1].stderr)
              ELSE Msg(<< >>, vcall.probes[1].stdout)
       /\ vcall.fn = "getContainerStatus" =>
            vcall.result.value =
              IF vcall.probes[1].rejected
              THEN Msg(<<"Error getting status: ">>,
                       T_CommandFailed \o vcall.probes[1].stderr)
              ELSE Msg(<< >>, vcall.probes[1].stdout)
       /\ vcall.fn = "getContainerDebugInfo" =>
            /\ Len(vcall.result.value) = DebugCommands
            /\ \A k \in 1..DebugCommands :
                 /\ vcall.result.value[k].cmd = k
                 /\ vcall.result.value[k].body =
                      IF vcall.probes[k].rejected
                      THEN Msg(<<"Error: ">>,
                               T_CommandFailed \o vcall.probes[k].stderr)
                      ELSE Msg(<< >>, vcall.probes[k].stdout)
  /\ \A r \in Slots : \A i \in 1..Len(results[r]) :
       "getContainerLogs" \in OpsOf(r, i) =>
         /\ "getContainerStatus" \in OpsOf(r, i)
         /\ results[r][i].success = dres[r][i].success
         /\ results[r][i].message = dres[r][i].message
         /\ results[r][i].message.prefix # CaughtPrefix

C31_Witness ==
  /\ vcall.fn = "getContainerDebugInfo"
  /\ vcall.returned
  /\ OnlyProbeFails(2)
  /\ Len(vcall.result.value) = DebugCommands
  /\ vcall.result.value[2].body.prefix = <<"Error: ">>
  /\ vcall.result.value[DebugCommands].body = Msg(<< >>, T_Up)
  /\ pc["h1"] = "responded"
  /\ Len(results["h1"]) = 1
  /\ {"getContainerLogs", "getContainerStatus"} \subseteq OpsOf("h1", 1)
  /\ ~results["h1"][1].success
  /\ results["h1"][1].message = dres["h1"][1].message
\* the position in the catalog of the i-th entry that matches the push
NthEligible(r, i) ==
  CHOOSE j \in EligibleEntries(r) :
    Cardinality({k \in EligibleEntries(r) : k < j}) = i - 1

\* `result` is what deployRepository returns for match i: its name, the
\* pushed branch, and the verdict and text of its sync and its redeploy
ResultOf(r, i, result) ==
  /\ result.repository = matching[r][i].name
  /\ result.branch = branch[r]
  /\ result.success = (pres[r][i].success /\ dres[r][i].success)
  /\ result.message.text = IF pres[r][i].success
                           THEN dres[r][i].message.text
                           ELSE pres[r][i].message.text

\* C32: the i-th element of the list returned by processPush is the result
\* of the i-th matching entry in catalog discovery order, whatever succeeds
\* and whatever fails (for a push whose payload names a ref, so that the
\* catalog is scanned and matched).
C32_ResultsInCatalogOrder ==
  \A r \in Slots :
    (pc[r] \in {"loop", "return", "responded"} /\ HasRef(r)) =>
      /\ Len(matching[r]) = Cardinality(EligibleEntries(r))
      /\ \A i \in 1..Len(matching[r]) :
           matching[r][i] = repositories[r][NthEligible(r, i)]
      /\ Len(results[r]) =
           Cardinality({i \in 1..Len(rpc[r]) : rpc[r][i] = "done"})
      /\ \A i \in 1..Len(results[r]) :
           /\ rpc[r][i] = "done"
           /\ ResultOf(r, i, results[r][i])

C32_Witness ==
  /\ pc["h1"] = "responded"
  /\ Len(matching["h1"]) = 2
  /\ Len(results["h1"]) = 2
  /\ ~pres["h1"][1].success
  /\ pres["h1"][2].success /\ dres["h1"][2].success
  /\ ~results["h1"][1].success
  /\ results["h1"][2].success
\* C33: the comparison checks the lengths first; for equal lengths it reads
\* every position once, in order, whether and wherever the strings differ,
\* so the number of comparison steps depends on the length alone; and it
\* answers true exactly for equal strings.
C33_ComparisonVisitsEveryPosition ==
  vcall.returned =>
    /\ Len(vcall.a) # Len(vcall.b) =>
         /\ ~vcall.result
         /\ vcall.steps = << >>
    /\ Len(vcall.a) = Len(vcall.b) =>
         /\ vcall.steps = [i \in 1..Len(vcall.a) |-> i]
         /\ vcall.result <=> vcall.a = vcall.b

C33_Witness ==
  /\ vcall.returned
  /\ vcall.a = <<"0", "f", "f">>
  /\ vcall.b = <<"f", "f", "f">>
  /\ ~vcall.result
  /\ Len(vcall.steps) = 3
\* C34: for every matched repository the redeploy is invoked exactly once
\* when its sync succeeded and never otherwise; the permission check and the
\* package fix that run in between hand back a string whatever their
\* commands do, so the redeploy follows them and the result of the match is
\* the result of the redeploy.
C34_RedeployOnceAfterSync ==
  \A r \in Slots : \A i \in 1..Len(rpc[r]) :
    /\ CountOf(r, "down", i) <= 1
    /\ "down" \in OpsOf(r, i) =>
         /\ pres[r][i].success
         /\ CountOf(r, "checkPermissions", i) = 1
         /\ CountOf(r, "fixPythonPackageIssues", i) = 1
    /\ rpc[r][i] = "fixPythonPackageIssues" =>
         Len(stderrs[r][i].permissions) = PermissionChecks
    /\ rpc[r][i] = "down" => stderrs[r][i].fixes # NotCaptured
    /\ (rpc[r][i] = "done" /\ i <= Len(results[r])) =>
         /\ CountOf(r, "down", i) = IF pres[r][i].success THEN 1 ELSE 0
         /\ pres[r][i].success =>
              /\ results[r][i].success = dres[r][i].success
              /\ results[r][i].message = dres[r][i].message

\* the match is about to be redeployed although touch failed inside the
\* package fix
C34_Witness ==
  /\ pc["h1"] = "loop"
  /\ Len(rpc["h1"]) = 2
  /\ rpc["h1"][1] = "done"
  /\ results["h1"][1].success
  /\ CountOf("h1", "down", 1) = 1
  /\ rpc["h1"][2] = "down"
  /\ pres["h1"][2].success
  /\ stderrs["h1"][2].fixes = FixErrorPrefix \o T_CommandFailed \o T_fatal
  /\ ENABLED Down("h1", 2)
\* the redeploy of match i ended in failure after its teardown had completed
FailedAfterTeardown(r, i) ==
  /\ "removeOrphans" \in OpsOf(r, i)
  /\ dres[r][i] # NoOutcome
  /\ ~dres[r][i].success

\* C35: there is no rollback: when Build, Start or Verify fails after the
\* teardown completed, the call ends with success = FALSE and no step starts
\* the workload again: every redeploy step ran at most once, in order, the
\* failing step is the last of them and only the diagnostic reads follow; after
\* a failed build no start command was issued at all.
C35_NoRollback ==
  \A r \in Slots : \A i \in 1..Len(rpc[r]) :
    FailedAfterTeardown(r, i) =>
      /\ rpc[r][i] \in {"getContainerLogs", "getContainerStatus", "done"}
      /\ StepLog(r, i) =
           [k \in 1..Len(StepLog(r, i)) |-> Call(RedeploySteps[k], i)]
      /\ CountOf(r, "down", i) = 1
      /\ dres[r][i].message.prefix = BuildErrorPrefix =>
           "up" \notin OpsOf(r, i)
      /\ dres[r][i].message.prefix = UpErrorPrefix =>
           /\ CountOf(r, "up", i) = 1
           /\ "ps" \notin OpsOf(r, i)
      /\ dres[r][i].message.prefix = NotRunningPrefix =>
           /\ CountOf(r, "up", i) = 1
           /\ CountOf(r, "ps", i) = 1
      /\ (rpc[r][i] = "done" /\ i <= Len(results[r])) =>
           ~results[r][i].success

\* a failed build, reported after the diagnostics, with the workload torn
\* down and never started
C35_Witness ==
  /\ pc["h1"] = "responded"
  /\ Len(results["h1"]) = 1
  /\ FailedAfterTeardown("h1", 1)
  /\ dres["h1"][1].message.prefix = BuildErrorPrefix
  /\ ~results["h1"][1].success
  /\ "down" \in OpsOf("h1", 1)
  /\ "up" \notin OpsOf("h1", 1)
PushProcessed(r) ==
  /\ pc[r] # "idle"
  /\ ~Rejected(r)
  /\ req[r].event = "push"
  /\ PushOf(r).hasCommit

\* C37: for an authenticated push event the handler answers 200 with the
\* message "Webhook processed successfully" once processPushEvent has
\* returned, whatever the success values of the results, and the deployments
\* count is the length of the result list.
C37_Always200AfterProcessing ==
  \A r \in Slots :
    PushProcessed(r) =>
      /\ pc[r] # "threw"
      /\ pc[r] = "return" => ENABLED Respond(r)
      /\ pc[r] = "responded" =>
           resp[r] = Resp(200, "Webhook processed successfully",
                          Len(results[r]))

C37_Witness ==
  /\ PushProcessed("h1")
  /\ pc["h1"] = "responded"
  /\ Len(results["h1"]) = 2
  /\ \A i \in 1..2 : ~results["h1"][i].success
  /\ ~pres["h1"][1].success
  /\ pres["h1"][2].success
  /\ resp["h1"].status = 200
  /\ resp["h1"].deployments = 2
\* the catalog scan of slot r has returned and its listing command failed
ListingFailed(r) == scanned[r] # NoScan /\ ~scanned[r].lsOk

\* C38: when listing the applications directory fails the scan returns the
\* empty list and no error: processPushEvent returns an empty result list
\* without any sync or redeploy step, and the response is the one of a push
\* that matches nothing.
C38_FailedScanLooksLikeNoMatch ==
  \A r \in Slots :
    ListingFailed(r) =>
      /\ repositories[r] = << >>
      /\ matching[r] = << >>
      /\ results[r] = << >>
      /\ calls[r] = <<Call("getRepositories", 0)>>
      /\ pc[r] \in {"return", "responded"}
      /\ pc[r] = "responded" =>
           resp[r] = Resp(200, "Webhook processed successfully", 0)

\* the pushed repository is in the directory, on the pushed branch and
\* deployable, and the failed listing hides it
C38_Witness ==
  /\ ListingFailed("h1")
  /\ pc["h1"] = "responded"
  /\ \E k \in 1..Len(listing) :
       /\ listing[k] = PushOf("h1").name
       /\ disk[listing[k]] = Checkout(branch["h1"], TRUE)
  /\ results["h1"] = << >>
  /\ resp["h1"] = Resp(200, "Webhook processed successfully", 0)
\* C39: the health check answers 200 with status "healthy" once the two
\* availability probes and the catalog scan have returned, also when the
\* engine or its compose tool is reported unavailable; the counts it reports
\* are the catalog length and the number of records with a workload
\* descriptor.
C39_HealthyWheneverProbesReturn ==
  \A r \in Slots :
    (req[r] = HealthReq /\ pc[r] = "responded") =>
      /\ resp[r].status = 200
      /\ resp[r].kind = "healthy"
      /\ resp[r].total = Len(repositories[r])
      /\ resp[r].withDockerCompose =
           Cardinality({k \in 1..Len(repositories[r]) :
                          repositories[r][k].hasDockerCompose})

C39_Witness ==
  /\ req["h1"] = HealthReq
  /\ pc["h1"] = "responded"
  /\ resp["h1"].docker = [docker |-> FALSE, compose |-> FALSE]
  /\ resp["h1"].status = 200
  /\ resp["h1"].kind = "healthy"
  /\ resp["h1"].total = 2
  /\ resp["h1"].withDockerCompose = 1
====
